---- MODULE Spec2Model ----
(***************************************************************************)
(* The VP8 boolean (arithmetic) decoders of image-webp:                    *)
(*   ArithmeticDecoder (src/src/vp8_arithmetic_decoder.rs), which keeps    *)
(*   the interval as a 64-bit xrange and derives the bit count from its    *)
(*   leading zeros, and                                                    *)
(*   BoolReader (src/src/bool_reader.rs), which keeps range and bit_count. *)
(* Both are driven by one sequence of operations on one input.             *)
(*                                                                         *)
(* A u64 is a tuple of four 16-bit limbs, most significant first, because  *)
(* the values exceed the integers of the model checker; every operation    *)
(* on it is computed modulo 2^64 as the release build computes it.         *)
(***************************************************************************)
EXTENDS Integers, Sequences, FiniteSets, TLC

VARIABLES
    ad,       \* the ArithmeticDecoder
    br,       \* the BoolReader
    input,    \* the (buf, len) of the last successful init, ghost
    last,     \* the last operation: its arguments, results and pre-states, ghost
    nops,     \* the number of read operations since the last successful init
    panicked, \* an operation panicked in every build: the run is over
    walk,     \* the position of a caller that is inside a tree walk or a script
    cblock    \* the 4x4 coefficient block handed to the inverse transforms

vars == <<ad, br, input, last, nops, panicked, walk, cblock>>

-----------------------------------------------------------------------------
(* 64-bit unsigned arithmetic on limbs *)

Zero64 == <<0, 0, 0, 0>>

\* u64::from(x) for x < 2^16
U64(x) == <<0, 0, 0, x>>

\* the limb of weight 2^(16*j), zero outside the value
LimbAt(x, j) == IF j >= 0 /\ j <= 3 THEN x[4 - j] ELSE 0

\* leading zeros of one 16-bit limb
Lz16(l) ==
    CHOOSE k \in 0..16 :
        \/ k = 16 /\ l = 0
        \/ k < 16 /\ l >= 2^(15 - k) /\ l < 2^(16 - k)

\* u64::leading_zeros
leading_zeros(x) ==
    IF x[1] > 0 THEN Lz16(x[1])
    ELSE IF x[2] > 0 THEN 16 + Lz16(x[2])
    ELSE IF x[3] > 0 THEN 32 + Lz16(x[3])
    ELSE 48 + Lz16(x[4])

\* x << s on u64; the shift amount is taken modulo 64 and the bits shifted
\* out are lost, as in a release build
Shl64(x, s) ==
    LET q == (s % 64) \div 16
        r == (s % 64) % 16
        L(j) == ((LimbAt(x, j - q) * 2^r) % 65536)
                + (LimbAt(x, j - q - 1) \div 2^(16 - r))
    IN  <<L(3), L(2), L(1), L(0)>>

\* x >> s on u64, the shift amount taken modulo 64
Shr64(x, s) ==
    LET q == (s % 64) \div 16
        r == (s % 64) % 16
        L(j) == (LimbAt(x, j + q) \div 2^r)
                + ((LimbAt(x, j + q + 1) % 2^r) * 2^(16 - r))
    IN  <<L(3), L(2), L(1), L(0)>>

\* x >= y on u64
Ge64(x, y) ==
    \/ x[1] > y[1]
    \/ x[1] = y[1] /\ x[2] > y[2]
    \/ x[1] = y[1] /\ x[2] = y[2] /\ x[3] > y[3]
    \/ x[1] = y[1] /\ x[2] = y[2] /\ x[3] = y[3] /\ x[4] >= y[4]

\* x - y on u64, wrapping
Sub64(x, y) ==
    LET d4 == x[4] - y[4]
        b4 == IF d4 < 0 THEN 1 ELSE 0
        d3 == x[3] - y[3] - b4
        b3 == IF d3 < 0 THEN 1 ELSE 0
        d2 == x[2] - y[2] - b3
        b2 == IF d2 < 0 THEN 1 ELSE 0
        d1 == x[1] - y[1] - b2
    IN  <<d1 % 65536, d2 % 65536, d3 % 65536, d4 % 65536>>

\* u64::checked_sub: <<TRUE, x - y>> or <<FALSE, _>>
checked_sub(x, y) == IF Ge64(x, y) THEN <<TRUE, Sub64(x, y)>> ELSE <<FALSE, x>>

\* x | u64::from(u32::from_be_bytes(chunk)) for an x whose low 32 bits are zero
OrWord(x, chunk) ==
    <<x[1], x[2], x[3] + chunk[1] * 256 + chunk[2], x[4] + chunk[3] * 256 + chunk[4]>>

\* x | u64::from(byte) for an x whose low 8 bits are zero
OrByte(x, byte) == <<x[1], x[2], x[3], x[4] + byte>>

\* (x as u32), as a pair of 16-bit halves
AsU32(x) == <<x[3], x[4]>>

\* (range - 1) * probability on u32, wrapping, for probability < 256
MulSub1(range, probability) ==
    LET lo1 == (range[2] - 1) % 65536
        hi1 == (range[1] - (IF range[2] = 0 THEN 1 ELSE 0)) % 65536
        lo  == lo1 * probability
        hi  == hi1 * probability + (lo \div 65536)
    IN  <<hi % 65536, lo % 65536>>

\* a variant of split: the product shifted down, without the 1 +
split_of_without_one(range, probability) ==
    LET m == MulSub1(range, probability)
        lo == (m[2] \div 256) + ((m[1] % 256) * 256)
        hi == (m[1] \div 256) + (lo \div 65536)
    IN  <<0, 0, hi, lo % 65536>>

\* split = 1 + (((range - 1) * probability) >> 8), as a u64
split_of(range, probability) ==
    LET m == MulSub1(range, probability)
        lo == (m[2] \div 256) + ((m[1] % 256) * 256) + 1
        hi == (m[1] \div 256) + (lo \div 65536)
    IN  <<0, 0, hi, lo % 65536>>

BoolToInt(b) == IF b THEN 1 ELSE 0

-----------------------------------------------------------------------------
(* ArithmeticDecoder, src/src/vp8_arithmetic_decoder.rs *)

FINAL_BYTES_REMAINING_EOF == -14

ZeroChunk == <<0, 0, 0, 0>>

\* [u8; 3]::rotate_left(1)
rotate_left(fb) == <<fb[2], fb[3], fb[1]>>

\* State.loaded is a ghost field: every byte shifted into value so far
AD_new ==
    [chunks |-> <<>>,
     state |-> [chunk_index |-> 0, value |-> Zero64, xrange |-> Zero64, loaded |-> <<>>],
     final_bytes |-> <<0, 0, 0>>,
     final_bytes_remaining |-> FINAL_BYTES_REMAINING_EOF]

\* a variant of TailOf: the first three bytes of the last chunk, whatever
\* the declared length
TailOf_whole(last_chunk, num_bytes_popped) ==
    <<last_chunk[1], last_chunk[2], last_chunk[3]>>

\* a variant of TailOf: the copy starts one byte late
TailOf_one_late(last_chunk, num_bytes_popped) ==
    LET B(i) == IF i <= num_bytes_popped THEN last_chunk[i + 1] ELSE 0
    IN  <<B(1), B(2), B(3)>>

\* the bytes of the popped last chunk that lie in the declared length
TailOf(last_chunk, num_bytes_popped) ==
    LET B(i) == IF i <= num_bytes_popped THEN last_chunk[i] ELSE 0
    IN  <<B(1), B(2), B(3)>>

\* a padding byte of the popped last chunk is not zero
PaddingNonZero(last_chunk, num_bytes_popped) ==
    \E i \in (num_bytes_popped + 1)..4 : last_chunk[i] # 0

\* a variant of len_is_not_whole: an empty buffer always asks for a last chunk
len_is_not_whole_or_empty(buf, len) == len # 4 * Len(buf) \/ buf = <<>>

\* len != 4 * buf.len(): the last chunk is popped to supply the tail bytes
len_is_not_whole(buf, len) == len # 4 * Len(buf)

\* ArithmeticDecoder::initialized: res is "Ok", "NotEnoughInitData" or "Panic"
AD_initialized(buf, len) ==
    LET pop == len_is_not_whole(buf, len)
        rest == IF pop /\ buf # <<>> THEN SubSeq(buf, 1, Len(buf) - 1) ELSE buf
        num_bytes_popped == len - 4 * Len(rest)
        last_chunk == IF buf # <<>> THEN buf[Len(buf)] ELSE ZeroChunk
    IN  IF pop /\ buf = <<>> THEN
            [res |-> "NotEnoughInitData", d |-> AD_new, dbg |-> FALSE]
        ELSE IF pop /\ (num_bytes_popped < 0 \/ num_bytes_popped > 3) THEN
            \* final_bytes[..num_bytes_popped] is out of range
            [res |-> "Panic", d |-> AD_new, dbg |-> TRUE]
        ELSE
            LET final_bytes == IF pop THEN TailOf(last_chunk, num_bytes_popped)
                               ELSE <<0, 0, 0>>
                final_bytes_remaining == IF pop THEN num_bytes_popped ELSE 0
                d == IF rest # <<>> THEN
                        [chunks |-> rest,
                         state |-> [chunk_index |-> 1,
                                    value |-> OrWord(Zero64, rest[1]),
                                    xrange |-> <<0, 0, 65280, 0>>,
                                    loaded |-> rest[1]],
                         final_bytes |-> final_bytes,
                         final_bytes_remaining |-> final_bytes_remaining]
                     ELSE
                        [chunks |-> rest,
                         state |-> [chunk_index |-> 1,
                                    value |-> IF final_bytes_remaining > 0
                                              THEN U64(final_bytes[1]) ELSE Zero64,
                                    xrange |-> U64(255),
                                    loaded |-> IF final_bytes_remaining > 0
                                               THEN <<final_bytes[1]>> ELSE <<0>>],
                         final_bytes |-> IF final_bytes_remaining > 0
                                         THEN rotate_left(final_bytes) ELSE final_bytes,
                         final_bytes_remaining |-> final_bytes_remaining - 1]
            IN  [res |-> "Ok", d |-> d,
                 dbg |-> pop /\ PaddingNonZero(last_chunk, num_bytes_popped)]

\* a variant of init: the position in the previous words is kept
AD_init_keeps_position(d, r) ==
    IF r.res = "Ok" THEN
        [r.d EXCEPT !.state.chunk_index =
                        IF d.state.chunk_index > @ THEN d.state.chunk_index ELSE @]
    ELSE d

\* ArithmeticDecoder::init on decoder d, r the result of initialized:
\* *self = Self::initialized(buf, len)?
AD_init(d, r) == IF r.res = "Ok" THEN r.d ELSE d

\* a variant of is_past_eof: every negative count is past the end
AD_is_past_eof_any_negative(d) == d.final_bytes_remaining < 0

AD_is_past_eof(d) == d.final_bytes_remaining = FINAL_BYTES_REMAINING_EOF

\* ArithmeticDecoder::check: "Ok" or "BitStreamError"
AD_check(d) == IF AD_is_past_eof(d) THEN "BitStreamError" ELSE "Ok"

\* a variant of load_from_final_bytes: a second implicit zero byte
AD_load_from_final_bytes_two_zero_bytes(d) ==
    IF d.final_bytes_remaining >= 1 THEN
        [d EXCEPT !.final_bytes_remaining = @ - 1,
                  !.final_bytes = rotate_left(@),
                  !.state.xrange = Shl64(@, 8),
                  !.state.value = OrByte(Shl64(@, 8), d.final_bytes[1]),
                  !.state.loaded = Append(@, d.final_bytes[1])]
    ELSE IF d.final_bytes_remaining \in {0, -1} THEN
        [d EXCEPT !.final_bytes_remaining = @ - 1,
                  !.state.xrange = Shl64(@, 8),
                  !.state.value = Shl64(@, 8),
                  !.state.loaded = Append(@, 0)]
    ELSE
        [d EXCEPT !.final_bytes_remaining = FINAL_BYTES_REMAINING_EOF]

\* a variant of load_from_final_bytes: a refused refill counts on past the
\* sentinel
AD_load_from_final_bytes_counting(d) ==
    IF d.final_bytes_remaining >= 1 THEN
        [d EXCEPT !.final_bytes_remaining = @ - 1,
                  !.final_bytes = rotate_left(@),
                  !.state.xrange = Shl64(@, 8),
                  !.state.value = OrByte(Shl64(@, 8), d.final_bytes[1]),
                  !.state.loaded = Append(@, d.final_bytes[1])]
    ELSE IF d.final_bytes_remaining = 0 THEN
        [d EXCEPT !.final_bytes_remaining = @ - 1,
                  !.state.xrange = Shl64(@, 8),
                  !.state.value = Shl64(@, 8),
                  !.state.loaded = Append(@, 0)]
    ELSE IF d.final_bytes_remaining = -1 THEN
        [d EXCEPT !.final_bytes_remaining = FINAL_BYTES_REMAINING_EOF]
    ELSE
        [d EXCEPT !.final_bytes_remaining = @ - 1]

\* a variant of load_from_final_bytes: final_bytes is not rotated
AD_load_from_final_bytes_unrotated(d) ==
    IF d.final_bytes_remaining >= 1 THEN
        [d EXCEPT !.final_bytes_remaining = @ - 1,
                  !.state.xrange = Shl64(@, 8),
                  !.state.value = OrByte(Shl64(@, 8), d.final_bytes[1]),
                  !.state.loaded = Append(@, d.final_bytes[1])]
    ELSE IF d.final_bytes_remaining = 0 THEN
        [d EXCEPT !.final_bytes_remaining = @ - 1,
                  !.state.xrange = Shl64(@, 8),
                  !.state.value = Shl64(@, 8),
                  !.state.loaded = Append(@, 0)]
    ELSE
        [d EXCEPT !.final_bytes_remaining = FINAL_BYTES_REMAINING_EOF]

AD_load_from_final_bytes(d) ==
    IF d.final_bytes_remaining >= 1 THEN
        [d EXCEPT !.final_bytes_remaining = @ - 1,
                  !.final_bytes = rotate_left(@),
                  !.state.xrange = Shl64(@, 8),
                  !.state.value = OrByte(Shl64(@, 8), d.final_bytes[1]),
                  !.state.loaded = Append(@, d.final_bytes[1])]
    ELSE IF d.final_bytes_remaining = 0 THEN
        [d EXCEPT !.final_bytes_remaining = @ - 1,
                  !.state.xrange = Shl64(@, 8),
                  !.state.value = Shl64(@, 8),
                  !.state.loaded = Append(@, 0)]
    ELSE
        [d EXCEPT !.final_bytes_remaining = FINAL_BYTES_REMAINING_EOF]

\* a variant of the refill step of cold_read_bit: the refill comes one bit late
AD_cold_refill_late(d) ==
    IF leading_zeros(d.state.xrange) > 57 THEN
        IF d.state.chunk_index < Len(d.chunks) THEN
            LET chunk == d.chunks[d.state.chunk_index + 1]
            IN  [d EXCEPT !.state.chunk_index = @ + 1,
                          !.state.xrange = Shl64(@, 32),
                          !.state.value = OrWord(Shl64(@, 32), chunk),
                          !.state.loaded = @ \o chunk]
        ELSE AD_load_from_final_bytes(d)
    ELSE d

\* the refill step of cold_read_bit
AD_cold_refill(d) ==
    IF leading_zeros(d.state.xrange) > 56 THEN
        IF d.state.chunk_index < Len(d.chunks) THEN
            LET chunk == d.chunks[d.state.chunk_index + 1]
            IN  [d EXCEPT !.state.chunk_index = @ + 1,
                          !.state.xrange = Shl64(@, 32),
                          !.state.value = OrWord(Shl64(@, 32), chunk),
                          !.state.loaded = @ \o chunk]
        ELSE AD_load_from_final_bytes(d)
    ELSE d

\* the debug assertions after the refill step fail
AD_assert_fails(xrange) ==
    \/ ~(leading_zeros(xrange) <= 56 /\ leading_zeros(xrange) >= 24)
    \/ ~(AsU32(Shr64(xrange, (56 - leading_zeros(xrange)) % 64))[1] = 0
         /\ AsU32(Shr64(xrange, (56 - leading_zeros(xrange)) % 64))[2] <= 255)

\* a variant of the end of a bit read: a true bit leaves value as it was
AD_decide_keeps_value(s1, bigsplit, xrange_if_true) ==
    LET cs == checked_sub(s1.value, bigsplit)
    IN  IF cs[1] THEN
            [s |-> [s1 EXCEPT !.xrange = xrange_if_true],
             v |-> TRUE, dbg |-> AD_assert_fails(s1.xrange)]
        ELSE
            [s |-> [s1 EXCEPT !.xrange = bigsplit],
             v |-> FALSE, dbg |-> AD_assert_fails(s1.xrange)]

\* the end of a bit read on the refilled State s1: value.checked_sub(bigsplit)
\* decides the bit; xrange_if_true is the interval of a true bit
AD_decide(s1, bigsplit, xrange_if_true) ==
    LET cs == checked_sub(s1.value, bigsplit)
    IN  IF cs[1] THEN
            [s |-> [s1 EXCEPT !.xrange = xrange_if_true, !.value = cs[2]],
             v |-> TRUE, dbg |-> AD_assert_fails(s1.xrange)]
        ELSE
            [s |-> [s1 EXCEPT !.xrange = bigsplit],
             v |-> FALSE, dbg |-> AD_assert_fails(s1.xrange)]

\* bigsplit of cold_read_bit and fast_read_bit; 56 - bsr wraps on u32 and the
\* shifts take it modulo 64
AD_bigsplit(xrange, probability) ==
    LET bsr == leading_zeros(xrange)
        bit_count == (56 - bsr) % 64
        range == AsU32(Shr64(xrange, bit_count))
        split == split_of(range, probability)
    IN  Shl64(split, bit_count)

\* a variant of half_xrange: half of xrange itself, the bits below the range
\* kept
AD_half_xrange_unaligned(xrange) == Shr64(xrange, 1)

\* half_xrange of fast_read_flag
AD_half_xrange(xrange) ==
    LET bsr == leading_zeros(xrange)
        bit_count == (56 - bsr) % 64
        half_range == Shr64(xrange, bit_count + 1)
    IN  Shl64(half_range, bit_count)

\* cold_read_bit and fast_read_bit after the refill step, on the State s1
AD_read_bit_refilled(s1, probability) ==
    LET bigsplit == AD_bigsplit(s1.xrange, probability)
    IN  AD_decide(s1, bigsplit, Sub64(s1.xrange, bigsplit))

\* fast_read_flag after the refill step, on the State s1
AD_read_flag_refilled(s1) ==
    LET half_xrange == AD_half_xrange(s1.xrange)
    IN  AD_decide(s1, Sub64(s1.xrange, half_xrange), half_xrange)

\* a variant of cold_read_bit: the bit is decided after a refused refill too
AD_cold_read_bit_refilled_decides(d, d1, r) ==
    [d |-> [d1 EXCEPT !.state = r.s], v |-> r.v, dbg |-> r.dbg]

\* cold_read_bit on decoder d, whose refill step gives d1: the decoder after,
\* the bit, and whether a debug assertion fails.  A refused refill returns
\* BitResult::err(), whose value is the default false.
AD_cold_read_bit_refilled(d, d1, r) ==
    IF leading_zeros(d.state.xrange) > 56
       /\ ~(d.state.chunk_index < Len(d.chunks))
       /\ AD_is_past_eof(d1) THEN
        [d |-> d1, v |-> FALSE, dbg |-> FALSE]
    ELSE
        [d |-> [d1 EXCEPT !.state = r.s], v |-> r.v, dbg |-> r.dbg]

\* the decision of cold_read_bit on the refilled decoder d1
AD_cold_decide(d, d1, probability) ==
    AD_cold_read_bit_refilled(d, d1, AD_read_bit_refilled(d1.state, probability))

\* ArithmeticDecoder::cold_read_bit
AD_cold_read_bit(d, probability) == AD_cold_decide(d, AD_cold_refill(d), probability)

AD_cold_read_bool(d, probability) == AD_cold_read_bit(d, probability)

AD_cold_read_flag(d) == AD_cold_read_bit(d, 128)

RECURSIVE AD_cold_literal_loop(_, _, _, _)
\* the loop of cold_read_literal with n iterations left
AD_cold_literal_loop(d, n, v, g) ==
    IF n = 0 THEN [d |-> d, v |-> v, dbg |-> g]
    ELSE LET b == AD_cold_read_flag(d)
         IN  IF b.v THEN AD_cold_literal_loop(b.d, n - 1, ((v * 2) % 256) + 1, g \/ b.dbg)
             ELSE AD_cold_literal_loop(b.d, n - 1, (v * 2) % 256, g \/ b.dbg)

AD_cold_read_literal(d, n) == AD_cold_literal_loop(d, n, 0, FALSE)

\* the value of a signed read from its magnitude and its sign; the result
\* keeps the sign's decoder or State
signed_value(flag_dbg, magnitude, sign) ==
    [sign EXCEPT !.v = IF sign.v THEN 0 - magnitude.v ELSE magnitude.v,
                 !.dbg = flag_dbg \/ magnitude.dbg \/ sign.dbg]

\* cold_read_optional_signed_value once the magnitude is read
AD_cold_osv_sign(flag, magnitude) ==
    signed_value(flag.dbg, magnitude, AD_cold_read_flag(magnitude.d))

\* a variant of AD_cold_osv_flag: the sign is read before the magnitude
AD_cold_osv_flag_sign_first(flag, n) ==
    IF ~flag.v THEN [d |-> flag.d, v |-> 0, dbg |-> flag.dbg]
    ELSE LET sign == AD_cold_read_flag(flag.d)
             magnitude == AD_cold_read_literal(sign.d, n)
         IN  [d |-> magnitude.d,
              v |-> IF sign.v THEN 0 - magnitude.v ELSE magnitude.v,
              dbg |-> flag.dbg \/ magnitude.dbg \/ sign.dbg]

\* cold_read_optional_signed_value once the flag is read
AD_cold_osv_flag(flag, n) ==
    IF ~flag.v THEN [d |-> flag.d, v |-> 0, dbg |-> flag.dbg]
    ELSE AD_cold_osv_sign(flag, AD_cold_read_literal(flag.d, n))

AD_cold_read_optional_signed_value(d, n) == AD_cold_osv_flag(AD_cold_read_flag(d), n)

\* TreeNode::value_from_branch: the leaf value of an out-of-range branch
value_from_branch(t) == t % 128

\* the tree of the tests, tree_nodes_from([2, 4, -0, -1, -2, -3], [100, 120, 140])
TREE ==
    << [left |-> 1,   right |-> 2,   prob |-> 100, index |-> 0],
       [left |-> 128, right |-> 129, prob |-> 120, index |-> 1],
       [left |-> 130, right |-> 131, prob |-> 140, index |-> 2] >>

RECURSIVE AD_cold_tree_loop(_, _, _, _)
\* the loop of cold_read_with_tree at node index
AD_cold_tree_loop(d, tree, index, g) ==
    LET node == tree[index + 1]
        b == AD_cold_read_bit(d, node.prob)
        t == IF b.v THEN node.right ELSE node.left
    IN  IF t < Len(tree) THEN AD_cold_tree_loop(b.d, tree, t, g \/ b.dbg)
        ELSE [d |-> b.d, v |-> value_from_branch(t), dbg |-> g \/ b.dbg]

AD_cold_read_with_tree(d, tree, start) == AD_cold_tree_loop(d, tree, start, FALSE)

(* FastDecoder: reads on the State alone, a zero chunk where none is left *)

\* a variant of return_if_valid: one substituted zero chunk is let through
AD_return_if_valid_one_more(chunks, s) == s.chunk_index <= Len(chunks) + 1

\* FastDecoder::return_if_valid: the value is kept
AD_return_if_valid(chunks, s) == s.chunk_index <= Len(chunks)

\* a variant of the refill step: a substituted zero chunk is not counted in
\* chunk_index
AD_fast_refill_uncounted(chunks, s) ==
    IF leading_zeros(s.xrange) > 56 THEN
        LET chunk == IF s.chunk_index < Len(chunks) THEN chunks[s.chunk_index + 1]
                     ELSE ZeroChunk
        IN  [chunk_index |-> IF s.chunk_index < Len(chunks) THEN s.chunk_index + 1
                             ELSE s.chunk_index,
             value |-> OrWord(Shl64(s.value, 32), chunk),
             xrange |-> Shl64(s.xrange, 32),
             loaded |-> s.loaded \o chunk]
    ELSE s

\* the refill step of fast_read_bit and fast_read_flag
AD_fast_refill(chunks, s) ==
    IF leading_zeros(s.xrange) > 56 THEN
        LET chunk == IF s.chunk_index < Len(chunks) THEN chunks[s.chunk_index + 1]
                     ELSE ZeroChunk
        IN  [chunk_index |-> s.chunk_index + 1,
             value |-> OrWord(Shl64(s.value, 32), chunk),
             xrange |-> Shl64(s.xrange, 32),
             loaded |-> s.loaded \o chunk]
    ELSE s

AD_fast_read_bit(chunks, s, probability) ==
    AD_read_bit_refilled(AD_fast_refill(chunks, s), probability)

AD_fast_read_flag(chunks, s) == AD_read_flag_refilled(AD_fast_refill(chunks, s))

RECURSIVE AD_fast_literal_loop(_, _, _, _, _)
\* the loop of fast_read_literal with n iterations left
AD_fast_literal_loop(chunks, s, n, v, g) ==
    IF n = 0 THEN [s |-> s, v |-> v, dbg |-> g]
    ELSE LET b == AD_fast_read_flag(chunks, s)
         IN  IF b.v THEN AD_fast_literal_loop(chunks, b.s, n - 1, ((v * 2) % 256) + 1,
                                              g \/ b.dbg)
             ELSE AD_fast_literal_loop(chunks, b.s, n - 1, (v * 2) % 256, g \/ b.dbg)

\* a variant of fast_read_literal: the loop stops one bit early
AD_fast_read_literal_one_less(chunks, s, n) ==
    AD_fast_literal_loop(chunks, s, IF n > 0 THEN n - 1 ELSE 0, 0, FALSE)

AD_fast_read_literal(chunks, s, n) == AD_fast_literal_loop(chunks, s, n, 0, FALSE)

\* FastDecoder::read_optional_signed_value once the magnitude is read
AD_fast_osv_sign(chunks, flag, magnitude) ==
    signed_value(flag.dbg, magnitude, AD_fast_read_flag(chunks, magnitude.s))

\* a variant of AD_fast_osv_flag: the sign is read even when the flag is not set
AD_fast_osv_flag_always_sign(chunks, flag, n) ==
    LET magnitude == IF flag.v THEN AD_fast_read_literal(chunks, flag.s, n)
                     ELSE [s |-> flag.s, v |-> 0, dbg |-> FALSE]
    IN  AD_fast_osv_sign(chunks, flag, magnitude)

\* FastDecoder::read_optional_signed_value once the flag is read
AD_fast_osv_flag(chunks, flag, n) ==
    IF ~flag.v THEN [s |-> flag.s, v |-> 0, dbg |-> flag.dbg]
    ELSE AD_fast_osv_sign(chunks, flag, AD_fast_read_literal(chunks, flag.s, n))

\* FastDecoder::read_optional_signed_value before return_if_valid
AD_fast_read_optional_signed_value(chunks, s, n) ==
    AD_fast_osv_flag(chunks, AD_fast_read_flag(chunks, s), n)

RECURSIVE AD_fast_tree_loop(_, _, _, _, _)
\* the loop of fast_read_with_tree at node
AD_fast_tree_loop(chunks, s, tree, node, g) ==
    LET b == AD_fast_read_bit(chunks, s, node.prob)
        i == IF b.v THEN node.right ELSE node.left
    IN  IF i < Len(tree) THEN AD_fast_tree_loop(chunks, b.s, tree, tree[i + 1], g \/ b.dbg)
        ELSE [s |-> b.s, v |-> value_from_branch(i), dbg |-> g \/ b.dbg]

AD_fast_read_with_tree(chunks, s, tree, first_node) ==
    AD_fast_tree_loop(chunks, s, tree, first_node, FALSE)

(* The public operations: the fast attempt runs on self.state in place and is
   kept if valid; otherwise the State is restored from the backup and the cold
   operation runs.  A result is [d, v, dbg, fast]: fast says the fast attempt
   was kept. *)

\* self.fast(): the decoder whose State the fast attempt f has overwritten
AD_fast(d, f) == [d EXCEPT !.state = f.s]

\* a variant of the restore: the State of the fast attempt is left in place
AD_restore_nothing(d, backup_state) == d

\* self.state = backup_state
AD_restore(d, backup_state) == [d EXCEPT !.state = backup_state]

\* the result of a public operation, from the fast attempt f and the cold
\* operation's result c
AD_fast_or_cold(d, f, c) ==
    IF AD_return_if_valid(d.chunks, f.s) THEN
        [d |-> AD_fast(d, f), v |-> f.v, dbg |-> f.dbg, fast |-> TRUE]
    ELSE
        [d |-> c.d, v |-> c.v, dbg |-> f.dbg \/ c.dbg, fast |-> FALSE]

AD_read_bool(d, probability) ==
    LET backup_state == d.state
        f == AD_fast_read_bit(d.chunks, d.state, probability)
    IN  AD_fast_or_cold(d, f,
            AD_cold_read_bool(AD_restore(AD_fast(d, f), backup_state), probability))

AD_read_flag(d) ==
    LET backup_state == d.state
        f == AD_fast_read_flag(d.chunks, d.state)
    IN  AD_fast_or_cold(d, f,
            AD_cold_read_flag(AD_restore(AD_fast(d, f), backup_state)))

AD_read_literal(d, n) ==
    LET backup_state == d.state
        f == AD_fast_read_literal(d.chunks, d.state, n)
    IN  AD_fast_or_cold(d, f,
            AD_cold_read_literal(AD_restore(AD_fast(d, f), backup_state), n))

AD_read_optional_signed_value(d, n) ==
    LET backup_state == d.state
        f == AD_fast_read_optional_signed_value(d.chunks, d.state, n)
    IN  AD_fast_or_cold(d, f,
            AD_cold_read_optional_signed_value(
                AD_restore(AD_fast(d, f), backup_state), n))

\* a variant of read_with_tree_with_first_node: the fallback walks from the
\* root whatever first_node is
AD_read_with_tree_with_first_node_cold_from_root(d, tree, first_node) ==
    LET backup_state == d.state
        f == AD_fast_read_with_tree(d.chunks, d.state, tree, first_node)
    IN  AD_fast_or_cold(d, f,
            AD_cold_read_with_tree(AD_restore(AD_fast(d, f), backup_state),
                                   tree, 0))

AD_read_with_tree_with_first_node(d, tree, first_node) ==
    LET backup_state == d.state
        f == AD_fast_read_with_tree(d.chunks, d.state, tree, first_node)
    IN  AD_fast_or_cold(d, f,
            AD_cold_read_with_tree(AD_restore(AD_fast(d, f), backup_state),
                                   tree, first_node.index))

\* a variant of read_with_tree: the walk starts at the second node
AD_read_with_tree_from_second_node(d, tree) ==
    AD_read_with_tree_with_first_node(d, tree, tree[2])

AD_read_with_tree(d, tree) == AD_read_with_tree_with_first_node(d, tree, tree[1])

-----------------------------------------------------------------------------
(* BoolReader, src/src/bool_reader.rs *)

BR_new ==
    [chunks |-> <<>>,
     state |-> [chunk_index |-> 0, value |-> Zero64, range |-> 255, bit_count |-> -8,
                loaded |-> <<>>],
     final_bytes |-> <<0, 0, 0>>,
     final_bytes_remaining |-> FINAL_BYTES_REMAINING_EOF]

\* BoolReader::init: res is "Ok", "NotEnoughInitData" or "Panic"; d is the
\* reader after a successful init
BR_init(buf, len) ==
    LET pop == ~(len = 4 * Len(buf))
        rest == IF pop /\ buf # <<>> THEN SubSeq(buf, 1, Len(buf) - 1) ELSE buf
        num_bytes_popped == len - 4 * Len(rest)
        last_chunk == IF buf # <<>> THEN buf[Len(buf)] ELSE ZeroChunk
    IN  IF pop /\ buf = <<>> THEN
            [res |-> "NotEnoughInitData", d |-> BR_new, dbg |-> FALSE]
        ELSE IF pop /\ (num_bytes_popped < 0 \/ num_bytes_popped > 3) THEN
            \* final_bytes[i] is out of range at i = 3
            [res |-> "Panic", d |-> BR_new, dbg |-> TRUE]
        ELSE
            [res |-> "Ok",
             d |-> [chunks |-> rest,
                    state |-> [chunk_index |-> 0, value |-> Zero64, range |-> 255,
                               bit_count |-> -8, loaded |-> <<>>],
                    final_bytes |-> IF pop THEN TailOf(last_chunk, num_bytes_popped)
                                    ELSE <<0, 0, 0>>,
                    final_bytes_remaining |-> IF pop THEN num_bytes_popped ELSE 0],
             dbg |-> pop /\ PaddingNonZero(last_chunk, num_bytes_popped)]

\* a variant of init: a failed init leaves a new reader behind
BR_init_resets_on_err(d, r) == IF r.res = "Ok" THEN r.d ELSE BR_new

\* BoolReader::init on reader d, r its result: *self is assigned after the
\* last return of an Err
BR_init_assigned(d, r) == IF r.res = "Ok" THEN r.d ELSE d

\* a variant of is_past_eof: the implicit zero byte already counts as past EOF
BR_is_past_eof_after_zero_byte(d) == d.final_bytes_remaining < 0

BR_is_past_eof(d) == d.final_bytes_remaining = FINAL_BYTES_REMAINING_EOF

\* BoolReader::check and check_directly: "Ok" or "BitStreamError"
BR_check(d) == IF BR_is_past_eof(d) THEN "BitStreamError" ELSE "Ok"

BR_load_final_bytes(d) ==
    IF d.final_bytes_remaining > 0 THEN
        [d EXCEPT !.final_bytes_remaining = @ - 1,
                  !.final_bytes = rotate_left(@),
                  !.state.value = OrByte(Shl64(@, 8), d.final_bytes[1]),
                  !.state.bit_count = @ + 8,
                  !.state.loaded = Append(@, d.final_bytes[1])]
    ELSE IF d.final_bytes_remaining = 0 THEN
        [d EXCEPT !.final_bytes_remaining = @ - 1,
                  !.state.value = Shl64(@, 8),
                  !.state.bit_count = @ + 8,
                  !.state.loaded = Append(@, 0)]
    ELSE
        [d EXCEPT !.final_bytes_remaining = FINAL_BYTES_REMAINING_EOF]

\* a variant of the refill step of cold_read_bit: chunk_index stays on the
\* word it loaded
BR_cold_refill_same_word(d) ==
    IF d.state.bit_count < 0 THEN
        IF d.state.chunk_index < Len(d.chunks) THEN
            LET chunk == d.chunks[d.state.chunk_index + 1]
            IN  [d EXCEPT !.state.value = OrWord(Shl64(@, 32), chunk),
                          !.state.bit_count = @ + 32,
                          !.state.loaded = @ \o chunk]
        ELSE BR_load_final_bytes(d)
    ELSE d

\* the refill step of cold_read_bit
BR_cold_refill(d) ==
    IF d.state.bit_count < 0 THEN
        IF d.state.chunk_index < Len(d.chunks) THEN
            LET chunk == d.chunks[d.state.chunk_index + 1]
            IN  [d EXCEPT !.state.chunk_index = @ + 1,
                          !.state.value = OrWord(Shl64(@, 32), chunk),
                          !.state.bit_count = @ + 32,
                          !.state.loaded = @ \o chunk]
        ELSE BR_load_final_bytes(d)
    ELSE d

\* a variant of the shift: one bit short of the byte
BR_shift_from_25(range) == IF 16 + Lz16(range) > 25 THEN 16 + Lz16(range) - 25 ELSE 0

\* range.leading_zeros().saturating_sub(24) for a range below 2^16
BR_shift(range) == IF 16 + Lz16(range) > 24 THEN 16 + Lz16(range) - 24 ELSE 0

\* the normalisation that ends a bit read: range and bit_count are shifted
\* until range >= 128
BR_normalise(s, retval, value, range) ==
    [s |-> [s EXCEPT !.value = value,
                     !.range = range * 2^BR_shift(range),
                     !.bit_count = @ - BR_shift(range)],
     v |-> retval,
     dbg |-> \/ ~(s.bit_count >= 0)
             \/ ~(range > 0)
             \/ ~(range * 2^BR_shift(range) >= 128)]

\* the subtraction that decides the bit; cs is value.checked_sub(bigsplit)
BR_subtract(s, split, cs) ==
    IF cs[1] THEN BR_normalise(s, TRUE, cs[2], s.range - split)
    ELSE BR_normalise(s, FALSE, s.value, split)

\* a variant of the decision: split is the product shifted down, without
\* the 1 +
BR_decide_split_without_one(s, probability) ==
    LET split == ((s.range - 1) * probability) \div 256
        bigsplit == Shl64(U64(split), s.bit_count)
    IN  BR_subtract(s, split, checked_sub(s.value, bigsplit))

\* the decision and the normalisation of a bit read on State s, bit_count >= 0
BR_decide(s, probability) ==
    LET split == 1 + (((s.range - 1) * probability) \div 256)
        bigsplit == Shl64(U64(split), s.bit_count)
    IN  BR_subtract(s, split, checked_sub(s.value, bigsplit))

\* cold_read_bit on reader d, whose refill step gives d1
BR_cold_read_bit_refilled(d, d1, r) ==
    IF d.state.bit_count < 0
       /\ ~(d.state.chunk_index < Len(d.chunks))
       /\ BR_is_past_eof(d1) THEN
        [d |-> d1, v |-> FALSE, dbg |-> FALSE]
    ELSE
        [d |-> [d1 EXCEPT !.state = r.s], v |-> r.v, dbg |-> r.dbg]

\* the decision of cold_read_bit on the refilled reader d1; bit_count is still
\* negative only when the refill was refused, and then nothing is decided
BR_cold_decide(d, d1, probability) ==
    BR_cold_read_bit_refilled(d, d1,
        IF d1.state.bit_count < 0 THEN [s |-> d1.state, v |-> FALSE, dbg |-> FALSE]
        ELSE BR_decide(d1.state, probability))

\* BoolReader::cold_read_bit
BR_cold_read_bit(d, probability) == BR_cold_decide(d, BR_cold_refill(d), probability)

BR_cold_read_bool(d, probability) == BR_cold_read_bit(d, probability)

RECURSIVE BR_cold_literal_loop(_, _, _, _)
BR_cold_literal_loop(d, n, v, g) ==
    IF n = 0 THEN [d |-> d, v |-> v, dbg |-> g]
    ELSE LET b == BR_cold_read_bit(d, 128)
         IN  IF b.v THEN BR_cold_literal_loop(b.d, n - 1, ((v * 2) % 256) + 1, g \/ b.dbg)
             ELSE BR_cold_literal_loop(b.d, n - 1, (v * 2) % 256, g \/ b.dbg)

BR_cold_read_literal(d, n) == BR_cold_literal_loop(d, n, 0, FALSE)

\* cold_read_magnitude_and_sign once the magnitude is read
BR_cold_ms_sign(magnitude) ==
    signed_value(FALSE, magnitude, BR_cold_read_bool(magnitude.d, 128))

BR_cold_read_magnitude_and_sign(d, n) == BR_cold_ms_sign(BR_cold_read_literal(d, n))

RECURSIVE BR_cold_tree_loop(_, _, _, _)
BR_cold_tree_loop(d, tree, index, g) ==
    LET node == tree[index + 1]
        b == BR_cold_read_bit(d, node.prob)
        t == IF b.v THEN node.right ELSE node.left
    IN  IF t < Len(tree) THEN BR_cold_tree_loop(b.d, tree, t, g \/ b.dbg)
        ELSE [d |-> b.d, v |-> value_from_branch(t), dbg |-> g \/ b.dbg]

BR_cold_read_with_tree(d, tree, skip) ==
    BR_cold_tree_loop(d, tree, BoolToInt(skip), FALSE)

(* FastReader: reads on a copy of the State, a zero chunk where none is left *)

\* FastReader::commit_if_valid: the copy is committed
BR_commit_if_valid(chunks, s) == s.chunk_index < Len(chunks)

\* the refill step of fast_read_bit
BR_fast_refill(chunks, s) ==
    IF s.bit_count < 0 THEN
        LET chunk == IF s.chunk_index < Len(chunks)
                     THEN chunks[s.chunk_index + 1] ELSE ZeroChunk
        IN  [s EXCEPT !.chunk_index = @ + 1,
                      !.value = OrWord(Shl64(@, 32), chunk),
                      !.bit_count = @ + 32,
                      !.loaded = @ \o chunk]
    ELSE s

BR_fast_read_bit(chunks, s, probability) ==
    BR_decide(BR_fast_refill(chunks, s), probability)

RECURSIVE BR_fast_literal_loop(_, _, _, _, _)
BR_fast_literal_loop(chunks, s, n, v, g) ==
    IF n = 0 THEN [s |-> s, v |-> v, dbg |-> g]
    ELSE LET b == BR_fast_read_bit(chunks, s, 128)
         IN  IF b.v THEN BR_fast_literal_loop(chunks, b.s, n - 1, ((v * 2) % 256) + 1,
                                              g \/ b.dbg)
             ELSE BR_fast_literal_loop(chunks, b.s, n - 1, (v * 2) % 256, g \/ b.dbg)

BR_fast_read_literal(chunks, s, n) == BR_fast_literal_loop(chunks, s, n, 0, FALSE)

\* fast_read_magnitude_and_sign once the magnitude is read
BR_fast_ms_sign(chunks, magnitude) ==
    signed_value(FALSE, magnitude, BR_fast_read_bit(chunks, magnitude.s, 128))

BR_fast_read_magnitude_and_sign(chunks, s, n) ==
    BR_fast_ms_sign(chunks, BR_fast_read_literal(chunks, s, n))

RECURSIVE BR_fast_tree_loop(_, _, _, _, _)
\* the loop of fast_read_with_tree at branch i
BR_fast_tree_loop(chunks, s, tree, i, g) ==
    IF i < Len(tree) THEN
        LET node == tree[i + 1]
            b == BR_fast_read_bit(chunks, s, node.prob)
        IN  BR_fast_tree_loop(chunks, b.s, tree,
                              IF b.v THEN node.right ELSE node.left, g \/ b.dbg)
    ELSE [s |-> s, v |-> value_from_branch(i), dbg |-> g]

BR_fast_read_with_tree(chunks, s, tree, skip) ==
    BR_fast_tree_loop(chunks, s, tree, BoolToInt(skip), FALSE)

\* the result of a public operation, from the fast attempt f on a copy of the
\* State and the cold operation's result c on the reader itself
BR_fast_or_cold(d, f, c) ==
    IF BR_commit_if_valid(d.chunks, f.s) THEN
        [d |-> [d EXCEPT !.state = f.s], v |-> f.v, dbg |-> f.dbg, fast |-> TRUE]
    ELSE
        [d |-> c.d, v |-> c.v, dbg |-> f.dbg \/ c.dbg, fast |-> FALSE]

BR_read_bool(d, probability) ==
    BR_fast_or_cold(d, BR_fast_read_bit(d.chunks, d.state, probability),
                    BR_cold_read_bool(d, probability))

BR_read_flag(d) == BR_read_bool(d, 128)

BR_read_literal(d, n) ==
    BR_fast_or_cold(d, BR_fast_read_literal(d.chunks, d.state, n),
                    BR_cold_read_literal(d, n))

BR_read_magnitude_and_sign(d, n) ==
    BR_fast_or_cold(d, BR_fast_read_magnitude_and_sign(d.chunks, d.state, n),
                    BR_cold_read_magnitude_and_sign(d, n))

BR_read_with_tree(d, tree, skip) ==
    BR_fast_or_cold(d, BR_fast_read_with_tree(d.chunks, d.state, tree, skip),
                    BR_cold_read_with_tree(d, tree, skip))

\* the caller's optional signed read once the magnitude and sign are read
BR_osv_magnitude_and_sign(flag, ms) ==
    [ms EXCEPT !.dbg = flag.dbg \/ ms.dbg, !.fast = flag.fast /\ ms.fast]

\* the caller's optional signed read once the flag is read
BR_osv_flag(flag, n) ==
    IF ~flag.v THEN [d |-> flag.d, v |-> 0, dbg |-> flag.dbg, fast |-> flag.fast]
    ELSE BR_osv_magnitude_and_sign(flag, BR_read_magnitude_and_sign(flag.d, n))

\* the caller's optional signed read on a BoolReader, as the format defines
\* it: a flag, and only if it is set a magnitude and a sign
BR_read_optional_signed_value(d, n) == BR_osv_flag(BR_read_flag(d), n)

-----------------------------------------------------------------------------
(* The state machine: one caller driving both decoders *)

\* no tree walk and no script is under way
NoWalk == [phase |-> "idle"]

\* no block has been handed over
NoBlock == [op |-> "absent"]

\* read operations allowed after a successful init and its leading
\* read_literal(8) calls
MaxOps == 2

\* the probabilities the caller passes to read_bool
Probs == {0, 10, 128, 250}

\* the bit counts the caller passes to read_literal and to the signed read
LiteralSizes == {0, 3, 8}
SignedSizes == {0, 3, 8}

\* the (buf, len) pairs the caller passes to init
Inputs ==
    { [buf |-> <<>>, len |-> 0],
      [buf |-> <<>>, len |-> 2],
      [buf |-> << <<77, 0, 0, 0>> >>, len |-> 1],
      [buf |-> << <<254, 200, 0, 0>> >>, len |-> 2],
      [buf |-> << <<104, 101, 108, 0>> >>, len |-> 3],
      [buf |-> << <<104, 101, 108, 9>> >>, len |-> 3],
      [buf |-> << <<104, 101, 108, 108>> >>, len |-> 4],
      [buf |-> << <<104, 101, 108, 108>>, <<0, 0, 0, 0>> >>, len |-> 4],
      [buf |-> << <<254, 255, 255, 129>>, <<111, 0, 0, 0>> >>, len |-> 5],
      [buf |-> << <<255, 255, 255, 255>>, <<255, 170, 0, 0>> >>, len |-> 6],
      [buf |-> << <<254, 255, 255, 129>>, <<111, 32, 119, 111>> >>, len |-> 8],
      [buf |-> << <<104, 101, 108, 108>>, <<111, 32, 119, 111>> >>, len |-> 2],
      [buf |-> << <<104, 101, 108, 108>> >>, len |-> 9] }

\* the record of an operation that has no arguments and no results yet; was
\* is the decoder's condition before an init: "fresh", "mid" or "eof"; ad_dbg
\* and br_dbg say that the operation fails a debug assertion, which panics in
\* a debug build and is compiled out of a release build
NoLast ==
    [op |-> "new", arg |-> 0, buf |-> <<>>, len |-> 0, was |-> "fresh",
     ad_pre |-> AD_new, br_pre |-> BR_new,
     ad_v |-> 0, br_v |-> 0, ad_fast |-> FALSE, br_fast |-> FALSE,
     ad_res |-> "None", br_res |-> "None", ad_dbg |-> FALSE, br_dbg |-> FALSE]

Init ==
    /\ ad = AD_new
    /\ br = BR_new
    /\ input = [buf |-> <<>>, len |-> 0, ok |-> FALSE]
    /\ last = NoLast
    /\ nops = 0
    /\ panicked = FALSE
    /\ walk = NoWalk
    /\ cblock = NoBlock

\* the decoder's condition, for the record of an init
Condition ==
    IF AD_is_past_eof(ad) THEN (IF input.ok THEN "eof" ELSE "fresh") ELSE "mid"

\* init(buf, len) on both decoders: *self is assigned only on Ok.  The
\* pre-states are recorded when the decoders are left as they were.
DoInit(i) ==
    \E a \in {AD_initialized(i.buf, i.len)}, b \in {BR_init(i.buf, i.len)} :
        /\ ~panicked
        /\ ad' = AD_init(ad, a)
        /\ br' = BR_init_assigned(br, b)
        /\ input' = IF a.res = "Ok" THEN [buf |-> i.buf, len |-> i.len, ok |-> TRUE]
                    ELSE input
        /\ last' = [NoLast EXCEPT !.op = "init", !.buf = i.buf, !.len = i.len,
                                  !.was = Condition,
                                  !.ad_pre = IF a.res = "Ok" THEN AD_new ELSE ad,
                                  !.br_pre = IF b.res = "Ok" THEN BR_new ELSE br,
                                  !.ad_res = a.res, !.br_res = b.res,
                                  !.ad_dbg = a.dbg, !.br_dbg = b.dbg]
        /\ nops' = IF a.res = "Ok" THEN 0 ELSE nops
        /\ panicked' = (a.res = "Panic" \/ b.res = "Panic")
        /\ UNCHANGED <<walk, cblock>>

\* a read on both decoders with results a and b
BothRead(op, arg, a, b) ==
    /\ ad' = a.d
    /\ br' = b.d
    /\ last' = [NoLast EXCEPT !.op = op, !.arg = arg, !.ad_pre = ad, !.br_pre = br,
                              !.ad_v = a.v, !.br_v = b.v,
                              !.ad_fast = a.fast, !.br_fast = b.fast,
                              !.ad_dbg = a.dbg, !.br_dbg = b.dbg]
    /\ UNCHANGED <<input, panicked, walk, cblock>>

\* the read is one of the read_literal(8) calls that directly follow an
\* init; these are not counted
Leading(n) ==
    /\ n = 8
    /\ input.ok
    /\ nops = 0
    /\ last.op = "init" \/ (last.op = "read_literal" /\ last.arg = 8)
    /\ ~AD_is_past_eof(ad)

ReadBool(p) ==
    /\ ~panicked
    /\ nops < MaxOps
    /\ \E a \in {AD_read_bool(ad, p)}, b \in {BR_read_bool(br, p)} :
           BothRead("read_bool", p, a, b)
    /\ nops' = nops + 1

ReadFlag ==
    /\ ~panicked
    /\ nops < MaxOps
    /\ \E a \in {AD_read_flag(ad)}, b \in {BR_read_flag(br)} :
           BothRead("read_flag", 0, a, b)
    /\ nops' = nops + 1

ReadLiteral(n) ==
    /\ ~panicked
    /\ nops < MaxOps \/ Leading(n)
    /\ \E a \in {AD_read_literal(ad, n)}, b \in {BR_read_literal(br, n)} :
           BothRead("read_literal", n, a, b)
    /\ nops' = IF Leading(n) THEN nops ELSE nops + 1

ReadOptionalSignedValue(n) ==
    /\ ~panicked
    /\ nops < MaxOps
    /\ \E a \in {AD_read_optional_signed_value(ad, n)},
          b \in {BR_read_optional_signed_value(br, n)} :
           BothRead("read_optional_signed_value", n, a, b)
    /\ nops' = nops + 1

\* start = 0 is read_with_tree(tree); start = 1 skips the first decision
ReadWithTree(start) ==
    /\ ~panicked
    /\ nops < MaxOps
    /\ \E a \in {AD_read_with_tree_with_first_node(ad, TREE, TREE[start + 1])},
          b \in {BR_read_with_tree(br, TREE, start = 1)} :
           BothRead("read_with_tree", start, a, b)
    /\ nops' = nops + 1

\* check(acc, ()) on both decoders
Check ==
    /\ ~panicked
    /\ last.op # "check"
    /\ last' = [NoLast EXCEPT !.op = "check", !.ad_pre = ad, !.br_pre = br,
                              !.ad_res = AD_check(ad), !.br_res = BR_check(br)]
    /\ UNCHANGED <<ad, br, input, nops, panicked, walk, cblock>>

Next ==
    \/ \E i \in Inputs : DoInit(i)
    \/ \E p \in Probs : ReadBool(p)
    \/ ReadFlag
    \/ \E n \in LiteralSizes : ReadLiteral(n)
    \/ \E n \in SignedSizes : ReadOptionalSignedValue(n)
    \/ \E start \in {0, 1} : ReadWithTree(start)
    \/ Check

Spec == Init /\ [][Next]_vars

\* the reads of a caller that initializes the decoders once
BatchInit == Init

\* init(buf, len) on decoders that were not initialized yet
BatchDoInit(i) ==
    /\ ~input.ok
    /\ DoInit(i)

BatchNext ==
    \/ \E i \in Inputs : BatchDoInit(i)
    \/ \E p \in Probs : ReadBool(p)
    \/ ReadFlag
    \/ \E n \in LiteralSizes : ReadLiteral(n)
    \/ \E n \in SignedSizes : ReadOptionalSignedValue(n)
    \/ \E start \in {0, 1} : ReadWithTree(start)

BatchSpec == BatchInit /\ [][BatchNext]_vars

-----------------------------------------------------------------------------
(* Properties *)

ReadOps ==
    {"read_bool", "read_flag", "read_literal", "read_optional_signed_value",
     "read_with_tree"}

\* the cold_ operation that corresponds to the last read, run alone on the
\* ArithmeticDecoder as it was before the read
ColdOfLast ==
    CASE last.op = "read_bool" -> AD_cold_read_bool(last.ad_pre, last.arg)
      [] last.op = "read_flag" -> AD_cold_read_flag(last.ad_pre)
      [] last.op = "read_literal" -> AD_cold_read_literal(last.ad_pre, last.arg)
      [] last.op = "read_optional_signed_value" ->
             AD_cold_read_optional_signed_value(last.ad_pre, last.arg)
      [] last.op = "read_with_tree" ->
             AD_cold_read_with_tree(last.ad_pre, TREE, last.arg)

\* C1: on an initialized ArithmeticDecoder every public read returns the
\* value and leaves the decoder (chunk_index, value, xrange, final_bytes,
\* final_bytes_remaining) that the corresponding cold_ operation alone returns
\* and leaves from the same state, so the two runs also agree on check.
C1_PublicReadIsColdRead ==
    (input.ok /\ last.op \in ReadOps) =>
        /\ last.ad_v = ColdOfLast.v
        /\ ad = ColdOfLast.d
        /\ AD_check(ad) = AD_check(ColdOfLast.d)

\* a read_literal(8) kept from the fast path that took the next chunk
C1_FastPathKeptAcrossRefill ==
    /\ input.ok
    /\ last.op = "read_literal"
    /\ last.arg = 8
    /\ last.ad_fast
    /\ ad.state.chunk_index = last.ad_pre.state.chunk_index + 1

\* the first len bytes of the input
InputBytes == [k \in 1..input.len |-> input.buf[((k - 1) \div 4) + 1][((k - 1) % 4) + 1]]

IsPrefix(s, t) == Len(s) <= Len(t) /\ \A k \in 1..Len(s) : s[k] = t[k]

\* the chunks not yet taken
ChunksLeft(d) ==
    IF d.state.chunk_index < Len(d.chunks) THEN Len(d.chunks) - d.state.chunk_index
    ELSE 0

\* what the refills of decoder d have delivered, against the input
DeliveredExactly(d) ==
    /\ d.final_bytes_remaining \in (-1..3) \cup {FINAL_BYTES_REMAINING_EOF}
    /\ IsPrefix(d.state.loaded, InputBytes \o <<0>>)
    /\ d.final_bytes_remaining >= 0 =>
           Len(d.state.loaded) = input.len - d.final_bytes_remaining - 4 * ChunksLeft(d)
    /\ d.final_bytes_remaining < 0 => Len(d.state.loaded) = input.len + 1

\* C2: the refills of an initialized decoder deliver the len input bytes in
\* order and then one zero byte (final_bytes_remaining 0 -> -1) and nothing
\* more; a refill attempted after the zero byte sets the EOF sentinel, and
\* check then returns BitStreamError.  For both decoders.
C2_OnePhantomByteThenEof ==
    input.ok =>
        /\ DeliveredExactly(ad)
        /\ DeliveredExactly(br)
        /\ AD_is_past_eof(ad) => AD_check(ad) = "BitStreamError"
        /\ BR_is_past_eof(br) => BR_check(br) = "BitStreamError"
        /\ (last.op \in {"read_bool", "read_flag"}
            /\ last.ad_pre.final_bytes_remaining = -1
            /\ leading_zeros(last.ad_pre.state.xrange) > 56) => AD_is_past_eof(ad)
        /\ (last.op \in {"read_bool", "read_flag"}
            /\ last.br_pre.final_bytes_remaining = -1
            /\ last.br_pre.state.bit_count < 0) => BR_is_past_eof(br)

\* a read with a tail that took both decoders from the zero byte to the
\* sentinel, then checked
C2_EofAfterPhantomByte ==
    /\ input.ok
    /\ input.len % 4 # 0
    /\ Len(input.buf) > 1
    /\ last.op = "check"
    /\ last.ad_res = "BitStreamError"
    /\ last.br_res = "BitStreamError"
    /\ Len(ad.state.loaded) = input.len + 1
    /\ Len(br.state.loaded) = input.len + 1

\* C3: a read on a decoder that is past EOF leaves it past EOF, whichever
\* read it is and whichever path it takes, and a check on a decoder past EOF
\* returns BitStreamError.  For both decoders.
C3_PastEofIsSticky ==
    /\ last.op \in ReadOps =>
           /\ AD_is_past_eof(last.ad_pre) => AD_is_past_eof(ad)
           /\ BR_is_past_eof(last.br_pre) => BR_is_past_eof(br)
    /\ last.op = "check" =>
           /\ AD_is_past_eof(ad) => last.ad_res = "BitStreamError"
           /\ BR_is_past_eof(br) => last.br_res = "BitStreamError"

\* a batched read on initialized decoders that were already past EOF
C3_ReadPastEof ==
    /\ input.ok
    /\ last.op = "read_literal"
    /\ last.arg = 8
    /\ AD_is_past_eof(last.ad_pre)
    /\ BR_is_past_eof(last.br_pre)
    /\ AD_is_past_eof(ad)

\* C4: a read on decoders that were never initialized returns in every
\* build, and check then returns BitStreamError on both.
C4_UninitReadThenCheckErr ==
    (~input.ok /\ last.op \in ReadOps) =>
        /\ ~last.ad_dbg
        /\ ~last.br_dbg
        /\ AD_check(ad) = "BitStreamError"
        /\ BR_check(br) = "BitStreamError"

\* a read_flag on a never-initialized ArithmeticDecoder fails a debug
\* assertion of the fast path
C4_UninitReadFailsDebugAssertion ==
    /\ ~input.ok
    /\ last.op = "read_flag"
    /\ last.ad_pre = AD_new
    /\ last.ad_dbg
    /\ ~last.br_dbg

\* C5: check returns BitStreamError if final_bytes_remaining is the EOF
\* sentinel and Ok otherwise, and leaves the decoder as it was.  For both
\* decoders.
C5_CheckReadsOnlyTheSentinel ==
    last.op = "check" =>
        /\ last.ad_res =
               IF ad.final_bytes_remaining = FINAL_BYTES_REMAINING_EOF
               THEN "BitStreamError" ELSE "Ok"
        /\ last.br_res =
               IF br.final_bytes_remaining = FINAL_BYTES_REMAINING_EOF
               THEN "BitStreamError" ELSE "Ok"
        /\ ad = last.ad_pre
        /\ br = last.br_pre

\* a check that returns Ok after the zero byte was delivered
C5_CheckOkAfterPhantomByte ==
    /\ last.op = "check"
    /\ last.ad_res = "Ok"
    /\ last.br_res = "Ok"
    /\ ad.final_bytes_remaining = -1
    /\ br.final_bytes_remaining = -1

\* the declared length lies in the last word of a buffer that has one
LenInLastWord(buf, len) ==
    buf # <<>> /\ 4 * (Len(buf) - 1) < len /\ len <= 4 * Len(buf)

\* C6: init returns NotEnoughInitData exactly when the buffer is empty and
\* len is not 0; it returns Ok for an empty buffer with len 0 and for a
\* buffer whose last word holds the declared length.  For both decoders.
C6_InitErrIffEmptyAndLenNotZero ==
    last.op = "init" =>
        /\ last.ad_res = "NotEnoughInitData" <=> (last.buf = <<>> /\ last.len # 0)
        /\ last.br_res = "NotEnoughInitData" <=> (last.buf = <<>> /\ last.len # 0)
        /\ ((last.buf = <<>> /\ last.len = 0) \/ LenInLastWord(last.buf, last.len)) =>
               (last.ad_res = "Ok" /\ last.br_res = "Ok")

\* an init with no words and a declared length of two bytes
C6_InitOfNothingFails ==
    /\ last.op = "init"
    /\ last.buf = <<>>
    /\ last.len = 2
    /\ last.ad_res = "NotEnoughInitData"
    /\ last.br_res = "NotEnoughInitData"

\* byte k of the buffer of the last init, counted from 0
LastByte(k) == last.buf[(k \div 4) + 1][(k % 4) + 1]

\* C7: after a successful init with the declared length in the last word the
\* decoder holds the first floor(len/4) words unchanged and len mod 4 tail
\* bytes in input order; an ArithmeticDecoder with no whole word has the
\* first tail byte in value and final_bytes_remaining = (len mod 4) - 1.
C7_InitSplitsWordsAndTail ==
    (last.op = "init" /\ last.ad_res = "Ok" /\ last.br_res = "Ok"
     /\ LenInLastWord(last.buf, last.len)) =>
        LET words == last.len \div 4
            tail == last.len % 4
        IN  /\ ad.chunks = SubSeq(last.buf, 1, words)
            /\ br.chunks = SubSeq(last.buf, 1, words)
            /\ br.final_bytes_remaining = tail
            /\ \A i \in 1..tail : br.final_bytes[i] = LastByte(4 * words + i - 1)
            /\ words > 0 =>
                   /\ ad.final_bytes_remaining = tail
                   /\ \A i \in 1..tail : ad.final_bytes[i] = LastByte(4 * words + i - 1)
                   /\ ad.state.value = OrWord(Zero64, last.buf[1])
            /\ words = 0 =>
                   /\ ad.final_bytes_remaining = tail - 1
                   /\ ad.state.value = U64(LastByte(0))
                   /\ \A i \in 1..(tail - 1) : ad.final_bytes[i] = LastByte(i)

\* a successful init with three tail bytes and no whole word
C7_InitWithTailOnly ==
    /\ last.op = "init"
    /\ last.ad_res = "Ok"
    /\ Len(last.buf) = 1
    /\ last.len = 3
    /\ ad.final_bytes_remaining = 2
    /\ br.final_bytes_remaining = 3

\* C8: when the flag read by read_optional_signed_value(n) is false, the
\* operation returns 0 and leaves the ArithmeticDecoder where one read_flag
\* leaves it: the public operation, the cold one and the fast attempt.
C8_UnsetFlagReadsOneBit ==
    last.op = "read_optional_signed_value" =>
        LET pre == last.ad_pre
            n == last.arg
            flag == AD_read_flag(pre)
            cold_flag == AD_cold_read_flag(pre)
            cold == AD_cold_read_optional_signed_value(pre, n)
            fast_flag == AD_fast_read_flag(pre.chunks, pre.state)
            fast == AD_fast_read_optional_signed_value(pre.chunks, pre.state, n)
        IN  /\ ~flag.v => (last.ad_v = 0 /\ ad = flag.d)
            /\ ~cold_flag.v => (cold.v = 0 /\ cold.d = cold_flag.d)
            /\ ~fast_flag.v => (fast.v = 0 /\ fast.s = fast_flag.s)

\* a read_optional_signed_value(8) kept from the fast path whose flag is false
C8_UnsetFlagOnFastPath ==
    /\ input.ok
    /\ last.op = "read_optional_signed_value"
    /\ last.arg = 8
    /\ last.ad_fast
    /\ ~AD_read_flag(last.ad_pre).v
    /\ last.ad_v = 0

RECURSIVE AD_flags(_, _, _)
\* n read_flag calls on ArithmeticDecoder d, most significant bit first
AD_flags(d, n, v) ==
    IF n = 0 THEN [d |-> d, v |-> v]
    ELSE LET b == AD_read_flag(d)
         IN  IF b.v THEN AD_flags(b.d, n - 1, 2 * v + 1) ELSE AD_flags(b.d, n - 1, 2 * v)

RECURSIVE AD_cold_flags(_, _, _)
\* n cold_read_flag calls on ArithmeticDecoder d, most significant bit first
AD_cold_flags(d, n, v) ==
    IF n = 0 THEN [d |-> d, v |-> v]
    ELSE LET b == AD_cold_read_flag(d)
         IN  IF b.v THEN AD_cold_flags(b.d, n - 1, 2 * v + 1) ELSE AD_cold_flags(b.d, n - 1, 2 * v)

RECURSIVE AD_fast_flags(_, _, _, _)
\* n fast_read_flag calls on State s, most significant bit first
AD_fast_flags(chunks, s, n, v) ==
    IF n = 0 THEN [s |-> s, v |-> v]
    ELSE LET b == AD_fast_read_flag(chunks, s)
         IN  IF b.v THEN AD_fast_flags(chunks, b.s, n - 1, 2 * v + 1)
             ELSE AD_fast_flags(chunks, b.s, n - 1, 2 * v)

RECURSIVE BR_flags(_, _, _)
\* n read_flag calls on BoolReader d, most significant bit first
BR_flags(d, n, v) ==
    IF n = 0 THEN [d |-> d, v |-> v]
    ELSE LET b == BR_read_flag(d)
         IN  IF b.v THEN BR_flags(b.d, n - 1, 2 * v + 1) ELSE BR_flags(b.d, n - 1, 2 * v)

RECURSIVE BR_cold_bools(_, _, _)
\* n cold_read_bool(128) calls on BoolReader d, most significant bit first
BR_cold_bools(d, n, v) ==
    IF n = 0 THEN [d |-> d, v |-> v]
    ELSE LET b == BR_cold_read_bool(d, 128)
         IN  IF b.v THEN BR_cold_bools(b.d, n - 1, 2 * v + 1) ELSE BR_cold_bools(b.d, n - 1, 2 * v)

\* C9: read_literal(n), 0 <= n <= 8, returns the value whose bits, most
\* significant first, are n probability-128 reads and leaves the decoder
\* where n read_flag calls leave it: the public, cold and fast operation of
\* the ArithmeticDecoder and the public and cold one of the BoolReader;
\* read_literal(0) returns 0 and changes nothing.
C9_LiteralIsFlagsMsbFirst ==
    last.op = "read_literal" =>
        LET n == last.arg
            a == AD_flags(last.ad_pre, n, 0)
            ac == AD_cold_flags(last.ad_pre, n, 0)
            af == AD_fast_flags(last.ad_pre.chunks, last.ad_pre.state, n, 0)
            b == BR_flags(last.br_pre, n, 0)
            bc == BR_cold_bools(last.br_pre, n, 0)
            cold == AD_cold_read_literal(last.ad_pre, n)
            fast == AD_fast_read_literal(last.ad_pre.chunks, last.ad_pre.state, n)
            br_cold == BR_cold_read_literal(last.br_pre, n)
        IN  /\ last.ad_v = a.v /\ ad = a.d
            /\ cold.v = ac.v /\ cold.d = ac.d
            /\ fast.v = af.v /\ fast.s = af.s
            /\ last.br_v = b.v /\ br = b.d
            /\ br_cold.v = bc.v /\ br_cold.d = bc.d
            /\ n = 0 => (last.ad_v = 0 /\ ad = last.ad_pre
                         /\ last.br_v = 0 /\ br = last.br_pre)

\* a read_literal(8) kept from the fast path that returns a value with
\* both set and unset bits
C9_LiteralOfEightBits ==
    /\ input.ok
    /\ last.op = "read_literal"
    /\ last.arg = 8
    /\ last.ad_fast
    /\ last.ad_v = 104
    /\ last.br_v = 104

\* C10: when the flag read by read_optional_signed_value(n) is true, the
\* operation is read_flag, m = read_literal(n), s = read_flag in that order
\* and returns -m if s and m otherwise: the public and the cold operation.
C10_SetFlagReadsMagnitudeThenSign ==
    last.op = "read_optional_signed_value" =>
        LET pre == last.ad_pre
            n == last.arg
            flag == AD_read_flag(pre)
            m == AD_read_literal(flag.d, n)
            sign == AD_read_flag(m.d)
            cold_flag == AD_cold_read_flag(pre)
            cold_m == AD_cold_read_literal(cold_flag.d, n)
            cold_sign == AD_cold_read_flag(cold_m.d)
            cold == AD_cold_read_optional_signed_value(pre, n)
        IN  /\ flag.v => /\ ad = sign.d
                         /\ last.ad_v = IF sign.v THEN 0 - m.v ELSE m.v
            /\ cold_flag.v => /\ cold.d = cold_sign.d
                              /\ cold.v = IF cold_sign.v THEN 0 - cold_m.v ELSE cold_m.v

\* a read_optional_signed_value(8) whose flag and sign are set: a negative value
C10_NegativeValue ==
    /\ input.ok
    /\ last.op = "read_optional_signed_value"
    /\ last.arg = 8
    /\ AD_read_flag(last.ad_pre).v
    /\ last.ad_v < 0

\* the fast attempt of the last read, on the State of the ArithmeticDecoder
\* as it was before the read
FastOfLast ==
    CASE last.op = "read_bool" ->
             AD_fast_read_bit(last.ad_pre.chunks, last.ad_pre.state, last.arg)
      [] last.op = "read_flag" ->
             AD_fast_read_flag(last.ad_pre.chunks, last.ad_pre.state)
      [] last.op = "read_literal" ->
             AD_fast_read_literal(last.ad_pre.chunks, last.ad_pre.state, last.arg)
      [] last.op = "read_optional_signed_value" ->
             AD_fast_read_optional_signed_value(last.ad_pre.chunks, last.ad_pre.state,
                                                last.arg)
      [] last.op = "read_with_tree" ->
             AD_fast_read_with_tree(last.ad_pre.chunks, last.ad_pre.state, TREE,
                                    TREE[last.arg + 1])

\* the reads that are one batch of the BoolReader (its optional signed read
\* is two public calls of the caller)
BR_BatchOps == {"read_bool", "read_flag", "read_literal", "read_with_tree"}

\* the fast attempt of the last read, on a copy of the State of the
\* BoolReader as it was before the read
BR_FastOfLast ==
    CASE last.op = "read_bool" ->
             BR_fast_read_bit(last.br_pre.chunks, last.br_pre.state, last.arg)
      [] last.op = "read_flag" ->
             BR_fast_read_bit(last.br_pre.chunks, last.br_pre.state, 128)
      [] last.op = "read_literal" ->
             BR_fast_read_literal(last.br_pre.chunks, last.br_pre.state, last.arg)
      [] last.op = "read_with_tree" ->
             BR_fast_read_with_tree(last.br_pre.chunks, last.br_pre.state, TREE,
                                    last.arg = 1)

\* the cold_ operation that corresponds to the last read, run alone on the
\* BoolReader as it was before the read
BR_ColdOfLast ==
    CASE last.op = "read_bool" -> BR_cold_read_bool(last.br_pre, last.arg)
      [] last.op = "read_flag" -> BR_cold_read_bool(last.br_pre, 128)
      [] last.op = "read_literal" -> BR_cold_read_literal(last.br_pre, last.arg)
      [] last.op = "read_with_tree" ->
             BR_cold_read_with_tree(last.br_pre, TREE, last.arg = 1)

\* decoder d with value v is the decoder pre with the State of the fast
\* attempt f in place of its own, and nothing else changed
KeptWhole(d, pre, v, f) ==
    /\ d = [pre EXCEPT !.state = f.s]
    /\ v = f.v

\* decoder d with value v is what the cold_ operation c left and returned
DroppedWhole(d, v, c) ==
    /\ d = c.d
    /\ v = c.v

\* C16: a public read either keeps the whole State of its fast attempt and
\* nothing else of the decoder changes, or it keeps nothing of it: the decoder
\* is then what the cold_ operation alone leaves from the State before the
\* call.  For both decoders.
C16_CommitIsAllOrNothing ==
    /\ last.op \in ReadOps =>
           IF last.ad_fast THEN KeptWhole(ad, last.ad_pre, last.ad_v, FastOfLast)
           ELSE DroppedWhole(ad, last.ad_v, ColdOfLast)
    /\ last.op \in BR_BatchOps =>
           IF last.br_fast THEN KeptWhole(br, last.br_pre, last.br_v, BR_FastOfLast)
           ELSE DroppedWhole(br, last.br_v, BR_ColdOfLast)

\* a read_literal(8) whose fast attempt took a zero word on both decoders
\* and was rejected, and whose slow path then read tail bytes
C16_RejectedBatchReadTail ==
    /\ input.ok
    /\ last.op = "read_literal"
    /\ last.arg = 8
    /\ ~last.ad_fast
    /\ ~last.br_fast
    /\ FastOfLast.s.chunk_index > Len(ad.chunks)
    /\ ad.state.chunk_index = last.ad_pre.state.chunk_index
    /\ ad.final_bytes_remaining < last.ad_pre.final_bytes_remaining
    /\ ad.final_bytes_remaining >= 0

\* the fast attempt that ended in State s shifted in more words than the
\* decoder pre had left: at least one of them was a substituted zero word
Substituted(pre, s) ==
    Len(s.loaded) - Len(pre.state.loaded) >
        4 * (Len(pre.chunks) - pre.state.chunk_index)

\* a fast attempt from decoder pre to State s: kept only without a
\* substituted word; with one, chunk_index is at least first_rejected, the
\* lowest chunk_index the decoder does not accept, and the attempt is dropped
OnlyRealWordsKept(pre, s, kept, first_rejected) ==
    /\ kept => ~Substituted(pre, s)
    /\ kept => s.chunk_index < first_rejected
    /\ Substituted(pre, s) =>
           /\ s.chunk_index >= first_rejected
           /\ ~kept

\* C17: a fast batch is accepted only if none of its refills took a
\* substituted zero word; a batch that took one ends with chunk_index above
\* chunks.len() and is rejected, on both decoders.  The chunk_index a decoder
\* with at least one whole word keeps never exceeds chunks.len().
C17_AcceptedBatchReadRealWords ==
    /\ last.op \in ReadOps =>
           OnlyRealWordsKept(last.ad_pre, FastOfLast.s, last.ad_fast,
                             Len(last.ad_pre.chunks) + 1)
    /\ last.op \in BR_BatchOps =>
           OnlyRealWordsKept(last.br_pre, BR_FastOfLast.s, last.br_fast,
                             Len(last.br_pre.chunks))
    /\ Len(ad.chunks) >= 1 => ad.state.chunk_index <= Len(ad.chunks)
    /\ Len(br.chunks) >= 1 => br.state.chunk_index <= Len(br.chunks)

\* a batch that refilled from the last whole word: the ArithmeticDecoder
\* kept it, the BoolReader dropped it
C17_LastWordAcceptedByOne ==
    /\ last.op \in BR_BatchOps
    /\ last.ad_fast
    /\ ad.state.chunk_index = Len(ad.chunks)
    /\ ad.state.chunk_index > last.ad_pre.state.chunk_index
    /\ ~last.br_fast
    /\ BR_FastOfLast.s.chunk_index = Len(br.chunks)
    /\ ~Substituted(last.br_pre, BR_FastOfLast.s)

-----------------------------------------------------------------------------
(* The tree walk, bit read by bit read: one caller, one walk on one decoder.
   walk is [phase, path, dec, tree, start, at, reads, bits, accessed, backup,
   s, v, target, public, eof]: phase is "fast", "cold" or "done"; path is the
   loop that runs or ran last, "fast" or "cold"; at is the index of the
   current node; reads counts the bit reads of the current loop; bits
   are the bits it read; accessed are the indices used on the node table;
   backup is the State before a public call; s is the FastReader's copy;
   target is the out-of-range branch reached; eof says the decoder was past
   EOF when the loop started. *)

\* the probabilities of the nodes of the tables, by node index
NodeProbs == <<100, 120, 140>>

\* a node of a table
TreeNodeOf(index, left, right) ==
    [left |-> left, right |-> right, prob |-> NodeProbs[index + 1], index |-> index]

\* the branch targets of the two-node tables: both nodes, the first index
\* past the table, and an encoded leaf
TwoNodeTargets == {0, 1, 2, 129}

\* every path from index reaches an out-of-range target within fuel reads
RECURSIVE AllPathsEnd(_, _, _)
AllPathsEnd(tree, index, fuel) ==
    IF index >= Len(tree) THEN TRUE
    ELSE IF fuel = 0 THEN FALSE
    ELSE /\ AllPathsEnd(tree, tree[index + 1].left, fuel - 1)
         /\ AllPathsEnd(tree, tree[index + 1].right, fuel - 1)

\* the table has no cycle that a walk from start can enter
WellFormed(tree, start) == start < Len(tree) /\ AllPathsEnd(tree, start, Len(tree))

\* the tables of the walks: every two-node table, the tree of the tests, and
\* a chain of three nodes
Trees ==
    { <<TreeNodeOf(0, l0, r0), TreeNodeOf(1, l1, r1)>> :
          l0 \in TwoNodeTargets, r0 \in TwoNodeTargets,
          l1 \in TwoNodeTargets, r1 \in TwoNodeTargets }
    \cup { TREE,
           <<TreeNodeOf(0, 1, 1), TreeNodeOf(1, 2, 2), TreeNodeOf(2, 3, 131)>> }

\* the (buf, len) pairs of the walks
TreeInputs ==
    { [buf |-> <<>>, len |-> 0],
      [buf |-> << <<77, 0, 0, 0>> >>, len |-> 1],
      [buf |-> << <<104, 101, 108, 0>> >>, len |-> 3],
      [buf |-> << <<254, 255, 255, 129>>, <<111, 32, 119, 111>> >>, len |-> 8] }

\* the read_literal(8) calls that a caller makes before the walk
MaxLeadingReads == 2

\* tree[index] panics when index is out of bounds
IndexPanics(tree, index) == ~(index < Len(tree))

\* a variant of BranchOf: the branches are taken the other way round
BranchOf_swapped(node, b) == IF b THEN node.left ELSE node.right

\* the branch taken at node on bit b
BranchOf(node, b) == IF b THEN node.right ELSE node.left

\* a variant of InTable: the first index past the table counts as a node
InTable_inclusive(tree, t) == t <= Len(tree)

\* new_index < tree.len(): the branch is a node of the table
InTable(tree, t) == t < Len(tree)

\* a walk at its start
WalkAt(phase, dec, tree, start, public, accessed, eof) ==
    [phase |-> phase, path |-> phase, dec |-> dec, tree |-> tree, start |-> start, at |-> start,
     reads |-> 0, bits |-> <<>>, accessed |-> accessed,
     backup |-> IF dec = "ad" THEN ad.state ELSE br.state,
     s |-> br.state, v |-> 0, target |-> 0, public |-> public, eof |-> eof]

\* the walk after a bit read that took branch t, with b the bit
WalkOn(t, b, accessed) ==
    [walk EXCEPT !.at = t, !.reads = @ + 1, !.bits = Append(@, b),
                 !.accessed = @ \o accessed]

\* the walk that returns the leaf of branch t
WalkDone(t, b, accessed) ==
    [WalkOn(t, b, accessed) EXCEPT !.phase = "done", !.target = t,
                                   !.v = value_from_branch(t)]

\* the walk that is rejected at branch t and starts again on the slow path
WalkAgain(t, b, accessed, eof) ==
    [WalkOn(t, b, accessed) EXCEPT !.phase = "cold", !.path = "cold", !.at = walk.start,
                                   !.reads = 0, !.bits = <<>>, !.eof = eof]

TreeInit == Init

\* init(buf, len) on both decoders, once
TreeDoInit(i) ==
    /\ ~input.ok
    /\ DoInit(i)

\* read_literal(8) on both decoders, before the walk
TreeLeadingRead ==
    /\ input.ok
    /\ walk.phase = "idle"
    /\ ~panicked
    /\ nops < MaxLeadingReads
    /\ \E a \in {AD_read_literal(ad, 8)}, b \in {BR_read_literal(br, 8)} :
           BothRead("read_literal", 8, a, b)
    /\ nops' = nops + 1

\* read_with_tree(tree) and read_with_tree_with_first_node(tree, tree[start])
\* on the ArithmeticDecoder: the first node is fetched by the caller
AD_StartWalk(tree, start) ==
    /\ input.ok
    /\ walk.phase = "idle"
    /\ WellFormed(tree, start)
    /\ walk' = WalkAt("fast", "ad", tree, start, TRUE, <<start>>, AD_is_past_eof(ad))
    /\ UNCHANGED <<ad, br, input, last, nops, panicked, cblock>>

\* cold_read_with_tree(tree, start) on the ArithmeticDecoder
AD_StartColdWalk(tree, start) ==
    /\ input.ok
    /\ walk.phase = "idle"
    /\ WellFormed(tree, start)
    /\ walk' = WalkAt("cold", "ad", tree, start, FALSE, <<>>, AD_is_past_eof(ad))
    /\ UNCHANGED <<ad, br, input, last, nops, panicked, cblock>>

\* read_with_tree(tree, skip) on the BoolReader
BR_StartWalk(tree, skip) ==
    /\ input.ok
    /\ walk.phase = "idle"
    /\ WellFormed(tree, BoolToInt(skip))
    /\ walk' = WalkAt("fast", "br", tree, BoolToInt(skip), TRUE, <<>>, BR_is_past_eof(br))
    /\ UNCHANGED <<ad, br, input, last, nops, panicked, cblock>>

\* cold_read_with_tree(tree, skip) on the BoolReader
BR_StartColdWalk(tree, skip) ==
    /\ input.ok
    /\ walk.phase = "idle"
    /\ WellFormed(tree, BoolToInt(skip))
    /\ walk' = WalkAt("cold", "br", tree, BoolToInt(skip), FALSE, <<>>, BR_is_past_eof(br))
    /\ UNCHANGED <<ad, br, input, last, nops, panicked, cblock>>

\* one iteration of FastDecoder::fast_read_with_tree, on self.state in
\* place; the last one ends in return_if_valid, and a rejected walk restores
\* the backup and goes on in cold_read_with_tree
AD_FastWalkStep ==
    /\ walk.phase = "fast" /\ walk.dec = "ad"
    /\ ~panicked
    /\ \E b \in {AD_fast_read_bit(ad.chunks, ad.state, walk.tree[walk.at + 1].prob)} :
       \E i \in {BranchOf(walk.tree[walk.at + 1], b.v)} :
           IF i < Len(walk.tree) THEN
               /\ ad' = AD_fast(ad, b)
               /\ walk' = WalkOn(i, b.v, <<i>>)
           ELSE IF AD_return_if_valid(ad.chunks, b.s) THEN
               /\ ad' = AD_fast(ad, b)
               /\ walk' = WalkDone(i, b.v, <<>>)
           ELSE
               /\ ad' = AD_restore(AD_fast(ad, b), walk.backup)
               /\ walk' = WalkAgain(i, b.v, <<>>, AD_is_past_eof(ad))
    /\ UNCHANGED <<br, input, last, nops, panicked, cblock>>

\* one iteration of ArithmeticDecoder::cold_read_with_tree
AD_ColdWalkStep ==
    /\ walk.phase = "cold" /\ walk.dec = "ad"
    /\ ~panicked
    /\ IF IndexPanics(walk.tree, walk.at) THEN
           /\ panicked' = TRUE
           /\ walk' = [walk EXCEPT !.accessed = Append(@, walk.at)]
           /\ UNCHANGED ad
       ELSE
           \E b \in {AD_cold_read_bit(ad, walk.tree[walk.at + 1].prob)} :
           \E t \in {BranchOf(walk.tree[walk.at + 1], b.v)} :
               /\ ad' = b.d
               /\ walk' = IF InTable(walk.tree, t) THEN WalkOn(t, b.v, <<walk.at>>)
                          ELSE WalkDone(t, b.v, <<walk.at>>)
               /\ UNCHANGED panicked
    /\ UNCHANGED <<br, input, last, nops, cblock>>

\* one iteration of FastReader::fast_read_with_tree, on the copy; the last
\* one ends in commit_if_valid, and a rejected walk goes on in
\* cold_read_with_tree on the reader itself
BR_FastWalkStep ==
    /\ walk.phase = "fast" /\ walk.dec = "br"
    /\ ~panicked
    /\ \E b \in {BR_fast_read_bit(br.chunks, walk.s, walk.tree[walk.at + 1].prob)} :
       \E i \in {BranchOf(walk.tree[walk.at + 1], b.v)} :
           IF i < Len(walk.tree) THEN
               /\ walk' = [WalkOn(i, b.v, <<walk.at>>) EXCEPT !.s = b.s]
               /\ UNCHANGED br
           ELSE IF BR_commit_if_valid(br.chunks, b.s) THEN
               /\ br' = [br EXCEPT !.state = b.s]
               /\ walk' = [WalkDone(i, b.v, <<walk.at>>) EXCEPT !.s = b.s]
           ELSE
               /\ walk' = [WalkAgain(i, b.v, <<walk.at>>, BR_is_past_eof(br))
                               EXCEPT !.s = b.s]
               /\ UNCHANGED br
    /\ UNCHANGED <<ad, input, last, nops, panicked, cblock>>

\* one iteration of BoolReader::cold_read_with_tree
BR_ColdWalkStep ==
    /\ walk.phase = "cold" /\ walk.dec = "br"
    /\ ~panicked
    /\ IF IndexPanics(walk.tree, walk.at) THEN
           /\ panicked' = TRUE
           /\ walk' = [walk EXCEPT !.accessed = Append(@, walk.at)]
           /\ UNCHANGED br
       ELSE
           \E b \in {BR_cold_read_bit(br, walk.tree[walk.at + 1].prob)} :
           \E t \in {BranchOf(walk.tree[walk.at + 1], b.v)} :
               /\ br' = b.d
               /\ walk' = IF InTable(walk.tree, t) THEN WalkOn(t, b.v, <<walk.at>>)
                          ELSE WalkDone(t, b.v, <<walk.at>>)
               /\ UNCHANGED panicked
    /\ UNCHANGED <<ad, input, last, nops, cblock>>

TreeNext ==
    \/ \E i \in TreeInputs : TreeDoInit(i)
    \/ TreeLeadingRead
    \/ \E tree \in Trees, start \in {0, 1} : AD_StartWalk(tree, start)
    \/ \E tree \in Trees, start \in {0, 1} : AD_StartColdWalk(tree, start)
    \/ \E tree \in Trees, skip \in BOOLEAN : BR_StartWalk(tree, skip)
    \/ \E tree \in Trees, skip \in BOOLEAN : BR_StartColdWalk(tree, skip)
    \/ AD_FastWalkStep
    \/ AD_ColdWalkStep
    \/ BR_FastWalkStep
    \/ BR_ColdWalkStep

\* a loop is under way
Walking == walk.phase \in {"fast", "cold"}

\* the loop of a walk is not abandoned: weak fairness of the four loop steps,
\* written out, since one of them is enabled exactly when a loop is under
\* way in a run that has not panicked, and each of them changes walk
WalkFairness ==
    \/ []<>~(Walking /\ ~panicked)
    \/ []<><<walk' # walk>>_vars

TreeSpec == TreeInit /\ [][TreeNext]_vars /\ WalkFairness

(* Properties of the tree walk *)

\* the branch that the bits lead to from index, read off the table
RECURSIVE Follow(_, _, _)
Follow(tree, index, bits) ==
    IF bits = <<>> \/ index >= Len(tree) THEN index
    ELSE Follow(tree,
                IF Head(bits) THEN tree[index + 1].right ELSE tree[index + 1].left,
                Tail(bits))

\* a loop has read at most tree.len() bits; a walk that is done returns the
\* leaf value of the out-of-range target that its bits lead to; past EOF
\* the slow path reads every bit as false
WalkIsBoundedAndReturnsItsLeaf ==
    /\ walk.phase # "idle" => walk.reads <= Len(walk.tree)
    /\ walk.phase = "done" =>
           /\ walk.target >= Len(walk.tree)
           /\ walk.target = Follow(walk.tree, walk.start, walk.bits)
           /\ walk.v = value_from_branch(walk.target)
    /\ (walk.phase # "idle" /\ walk.path = "cold" /\ walk.eof) =>
           \A k \in DOMAIN walk.bits : ~walk.bits[k]

\* C11: on every table without a cycle, a tree walk ends after at most
\* tree.len() bit reads and returns the leaf value of the out-of-range target
\* reached, on the fast path, on the slow path and on an exhausted stream
C11_TreeWalkTerminates ==
    /\ []WalkIsBoundedAndReturnsItsLeaf
    /\ Walking ~> (walk.phase = "done")

\* a slow walk on an exhausted stream went through the whole chain of three
C11_ExhaustedWalkReadsWholeChain ==
    /\ walk.phase = "done"
    /\ walk.path = "cold"
    /\ walk.eof
    /\ Len(walk.tree) = 3
    /\ walk.reads = 3
    /\ walk.v = 3

\* C12: a walk started at a valid index uses only indices below tree.len() on
\* the node table, and a target at or past tree.len() is returned as a leaf
C12_WalkStaysInsideTable ==
    walk.phase # "idle" =>
        /\ ~panicked
        /\ \A k \in DOMAIN walk.accessed : walk.accessed[k] < Len(walk.tree)
        /\ walk.phase = "done" => walk.target >= Len(walk.tree)

\* a walk took the branch that is the first index past a two-node table
C12_LeafJustPastTable ==
    /\ walk.phase = "done"
    /\ Len(walk.tree) = 2
    /\ walk.target = 2
    /\ walk.reads = 2
    /\ walk.accessed # <<>>

-----------------------------------------------------------------------------
(* The scripts of the tests: one caller runs the fixed sequence of reads of
   a test on one decoder, through the public operations or through the cold_
   operations, and may check at any point.  walk is [phase, name, dec, mode,
   pc, results, check]: pc reads of the script are done, results are their
   values, check is the outcome of the check that ended the run. *)

\* the reads of test_*_hello_short
HelloShortScript ==
    << [op |-> "flag", arg |-> 0], [op |-> "bool", arg |-> 10],
       [op |-> "bool", arg |-> 250], [op |-> "literal", arg |-> 1],
       [op |-> "literal", arg |-> 3], [op |-> "literal", arg |-> 8],
       [op |-> "literal", arg |-> 8] >>

\* the reads of test_*_hello_long
HelloLongScript ==
    HelloShortScript \o << [op |-> "literal", arg |-> 8], [op |-> "tree", arg |-> 0] >>

\* the tests: b"hel" and b"hello world" copied into zeroed words
Tests ==
    { [name |-> "hel", buf |-> << <<104, 101, 108, 0>> >>, len |-> 3,
       script |-> HelloShortScript],
      [name |-> "hello world",
       buf |-> << <<104, 101, 108, 108>>, <<111, 32, 119, 111>>, <<114, 108, 100, 0>> >>,
       len |-> 11, script |-> HelloLongScript] }

\* the script of the test called name
ScriptOf(name) == (CHOOSE t \in Tests : t.name = name).script

\* a read of a script through the public operations of the ArithmeticDecoder
AD_public_op(d, step) ==
    CASE step.op = "flag" -> AD_read_flag(d)
      [] step.op = "bool" -> AD_read_bool(d, step.arg)
      [] step.op = "literal" -> AD_read_literal(d, step.arg)
      [] step.op = "tree" -> AD_read_with_tree(d, TREE)

\* a read of a script through the cold_ operations of the ArithmeticDecoder
AD_cold_op(d, step) ==
    CASE step.op = "flag" -> AD_cold_read_flag(d)
      [] step.op = "bool" -> AD_cold_read_bool(d, step.arg)
      [] step.op = "literal" -> AD_cold_read_literal(d, step.arg)
      [] step.op = "tree" -> AD_cold_read_with_tree(d, TREE, 0)

\* a read of a script through the public operations of the BoolReader
BR_public_op(d, step) ==
    CASE step.op = "flag" -> BR_read_flag(d)
      [] step.op = "bool" -> BR_read_bool(d, step.arg)
      [] step.op = "literal" -> BR_read_literal(d, step.arg)
      [] step.op = "tree" -> BR_read_with_tree(d, TREE, FALSE)

\* a read of a script through the cold_ operations of the BoolReader
BR_cold_op(d, step) ==
    CASE step.op = "flag" -> BR_cold_read_bool(d, 128)
      [] step.op = "bool" -> BR_cold_read_bool(d, step.arg)
      [] step.op = "literal" -> BR_cold_read_literal(d, step.arg)
      [] step.op = "tree" -> BR_cold_read_with_tree(d, TREE, FALSE)

GoldenInit == Init

\* decoder.init(buf, size).unwrap() of a test
GoldenDoInit(t) ==
    /\ ~input.ok
    /\ DoInit([buf |-> t.buf, len |-> t.len])

\* the test picks its decoder and its operations
GoldenStart(t, dec, mode) ==
    /\ input.ok
    /\ input.buf = t.buf
    /\ walk.phase = "idle"
    /\ walk' = [phase |-> "script", name |-> t.name, dec |-> dec, mode |-> mode,
                pc |-> 0, results |-> <<>>, check |-> "None"]
    /\ UNCHANGED <<ad, br, input, last, nops, panicked, cblock>>

\* the walk after a read that returned v
ScriptOn(v) == [walk EXCEPT !.pc = @ + 1, !.results = Append(@, v)]

\* the next read of the script on the ArithmeticDecoder
AD_ScriptStep ==
    /\ walk.phase = "script" /\ walk.dec = "ad" /\ walk.check = "None"
    /\ walk.pc < Len(ScriptOf(walk.name))
    /\ \E r \in {IF walk.mode = "public"
                 THEN AD_public_op(ad, ScriptOf(walk.name)[walk.pc + 1])
                 ELSE AD_cold_op(ad, ScriptOf(walk.name)[walk.pc + 1])} :
           /\ ad' = r.d
           /\ walk' = ScriptOn(r.v)
    /\ UNCHANGED <<br, input, last, nops, panicked, cblock>>

\* the next read of the script on the BoolReader
BR_ScriptStep ==
    /\ walk.phase = "script" /\ walk.dec = "br" /\ walk.check = "None"
    /\ walk.pc < Len(ScriptOf(walk.name))
    /\ \E r \in {IF walk.mode = "public"
                 THEN BR_public_op(br, ScriptOf(walk.name)[walk.pc + 1])
                 ELSE BR_cold_op(br, ScriptOf(walk.name)[walk.pc + 1])} :
           /\ br' = r.d
           /\ walk' = ScriptOn(r.v)
    /\ UNCHANGED <<ad, input, last, nops, panicked, cblock>>

\* decoder.check(res, ()) ends the run
ScriptCheck ==
    /\ walk.phase = "script" /\ walk.check = "None"
    /\ walk' = [walk EXCEPT !.check = IF walk.dec = "ad" THEN AD_check(ad)
                                      ELSE BR_check(br)]
    /\ UNCHANGED <<ad, br, input, last, nops, panicked, cblock>>

GoldenNext ==
    \/ \E t \in Tests : GoldenDoInit(t)
    \/ \E t \in Tests, dec \in {"ad", "br"}, mode \in {"public", "cold"} :
           GoldenStart(t, dec, mode)
    \/ AD_ScriptStep
    \/ BR_ScriptStep
    \/ ScriptCheck

GoldenSpec == GoldenInit /\ [][GoldenNext]_vars

(* Properties of the scripts *)

\* the first n elements of seq
Prefix(seq, n) == SubSeq(seq, 1, n)

\* final_bytes_remaining of the decoder of the script
ScriptBytesRemaining ==
    IF walk.dec = "ad" THEN ad.final_bytes_remaining ELSE br.final_bytes_remaining

\* the values that test_*_hello_short asserts
HelloShortValues == <<FALSE, TRUE, FALSE, 1, 5, 64, 185>>

\* the values that test_*_hello_long asserts
HelloLongValues == HelloShortValues \o <<31, 2>>

\* C13: the reads of the script on "hel" return false, true, false, 1, 5, 64,
\* 185 on both decoders, through the public and through the cold_
\* operations; the last reads use the implicit zero byte and the check after
\* them succeeds
C13_HelloShortDecodes ==
    (walk.phase = "script" /\ walk.name = "hel") =>
        /\ walk.results = Prefix(HelloShortValues, walk.pc)
        /\ walk.pc = 7 => ScriptBytesRemaining = -1
        /\ (walk.pc = 7 /\ walk.check # "None") => walk.check = "Ok"

\* the BoolReader has run the whole short script and its check succeeded
C13_HelloShortChecked ==
    /\ walk.phase = "script" /\ walk.name = "hel"
    /\ walk.dec = "br" /\ walk.mode = "public"
    /\ walk.pc = 7
    /\ walk.check = "Ok"

\* C14: the reads of the script on "hello world" return false, true, false,
\* 1, 5, 64, 185, 31 and the walk on the tree of the tests returns leaf 2, the
\* same through the public and through the cold_ operations, and the check
\* after them succeeds
C14_HelloLongDecodes ==
    (walk.phase = "script" /\ walk.name = "hello world") =>
        /\ walk.results = Prefix(HelloLongValues, walk.pc)
        /\ (walk.pc = 9 /\ walk.check # "None") => walk.check = "Ok"

\* the cold_ operations of the ArithmeticDecoder have run the whole long
\* script and its check succeeded
C14_HelloLongChecked ==
    /\ walk.phase = "script" /\ walk.name = "hello world"
    /\ walk.dec = "ad" /\ walk.mode = "cold"
    /\ walk.pc = 9
    /\ walk.results[9] = 2
    /\ walk.check = "Ok"

-----------------------------------------------------------------------------
(* The inverse transforms, src/src/transform.rs.  A block is a tuple of four
   rows of four integers, block[y + 1][x + 1] for the source's block[y][x].
   The coefficients of the model are small enough that no i64 product and no
   i32 sum of the source leaves its width. *)

CONST1 == 20091
CONST2 == 35468

\* x >> n on a signed integer: the arithmetic shift rounds towards minus
\* infinity
Sar(x, n) == x \div (2^n)

\* x as i32 for an i64 x: the low 32 bits, read as a signed number
as_i32(x) ==
    IF x >= -2147483647 - 1 /\ x <= 2147483647 THEN x
    ELSE ((x + 2^31) % 2^32) - 2^31

\* the block whose columns are cols
FromColumns(cols) ==
    << <<cols[1][1], cols[2][1], cols[3][1], cols[4][1]>>,
       <<cols[1][2], cols[2][2], cols[3][2], cols[4][2]>>,
       <<cols[1][3], cols[2][3], cols[3][3], cols[4][3]>>,
       <<cols[1][4], cols[2][4], cols[3][4], cols[4][4]>> >>

\* tees[x] of idct_impl_part1, for column x of the block
idct_part1_tees(block, x) ==
    << Sar(block[2][x] * CONST2, 16),
       block[4][x] + Sar(block[4][x] * CONST1, 16),
       block[2][x] + Sar(block[2][x] * CONST1, 16),
       Sar(block[4][x] * CONST2, 16) >>

\* the butterfly of idct_impl_part1 on column x: new_block[0..3][x]
idct_part1_column(block, tees, x) ==
    LET a1 == block[1][x] + block[3][x]
        b1 == block[1][x] - block[3][x]
        c1 == tees[1] - tees[2]
        d1 == tees[3] + tees[4]
    IN  <<a1 + d1, b1 + c1, b1 - c1, a1 - d1>>

idct_impl_part1(block) ==
    FromColumns(<< idct_part1_column(block, idct_part1_tees(block, 1), 1),
                   idct_part1_column(block, idct_part1_tees(block, 2), 2),
                   idct_part1_column(block, idct_part1_tees(block, 3), 3),
                   idct_part1_column(block, idct_part1_tees(block, 4), 4) >>)

\* tees[y] after idct_impl_part2_a, for row y of the block
idct_impl_part2_a(row) ==
    << Sar(row[2] * CONST2, 16), Sar(row[4] * CONST1, 16),
       Sar(row[2] * CONST1, 16), Sar(row[4] * CONST2, 16) >>

\* tees[y] after idct_impl_part2_b
idct_impl_part2_b(row, tees) == <<tees[1], tees[2] + row[4], tees[3] + row[2], tees[4]>>

\* new_block[y] of idct_impl_part2_f
idct_impl_part2_f(row, tees) ==
    LET a1 == row[1] + row[3]
        b1 == row[1] - row[3]
        c1 == tees[1] - tees[2]
        d1 == tees[3] + tees[4]
    IN  <<a1 + d1, b1 + c1, b1 - c1, a1 - d1>>

\* idct_impl_part2 on one row
idct_part2_row(row) ==
    idct_impl_part2_f(row, idct_impl_part2_b(row, idct_impl_part2_a(row)))

idct_impl_part2(block) ==
    << idct_part2_row(block[1]), idct_part2_row(block[2]),
       idct_part2_row(block[3]), idct_part2_row(block[4]) >>

\* a variant of the rounding of idct_impl_part3: a whole step is added
idct_part3_row_round_up(row) ==
    <<Sar(row[1] + 8, 3), Sar(row[2] + 8, 3), Sar(row[3] + 8, 3), Sar(row[4] + 8, 3)>>

\* new_block[y] of idct_impl_part3
idct_part3_row(row) ==
    <<Sar(row[1] + 4, 3), Sar(row[2] + 4, 3), Sar(row[3] + 4, 3), Sar(row[4] + 4, 3)>>

idct_impl_part3(block) ==
    << idct_part3_row(block[1]), idct_part3_row(block[2]),
       idct_part3_row(block[3]), idct_part3_row(block[4]) >>

\* the block as i32 again
block_as_i32(row) == <<as_i32(row[1]), as_i32(row[2]), as_i32(row[3]), as_i32(row[4])>>

idct4x4(block) ==
    LET big_block == idct_impl_part3(idct_impl_part2(idct_impl_part1(block)))
    IN  << block_as_i32(big_block[1]), block_as_i32(big_block[2]),
           block_as_i32(big_block[3]), block_as_i32(big_block[4]) >>

\* the first loop of iwht4x4 on column x: new_block[0..3][x]
iwht_column(block, x) ==
    LET a1 == block[1][x] + block[4][x]
        b1 == block[2][x] + block[3][x]
        c1 == block[2][x] - block[3][x]
        d1 == block[1][x] - block[4][x]
    IN  <<a1 + b1, c1 + d1, a1 - b1, d1 - c1>>

\* a variant of the rounding of iwht4x4: 4 is added, as idct_impl_part3 does
iwht_row_rounds_like_idct(row) ==
    LET a1 == row[1] + row[4]
        b1 == row[2] + row[3]
        c1 == row[2] - row[3]
        d1 == row[1] - row[4]
    IN  <<Sar(a1 + b1 + 4, 3), Sar(c1 + d1 + 4, 3), Sar(a1 - b1 + 4, 3),
          Sar(d1 - c1 + 4, 3)>>

\* the second loop of iwht4x4 on row y: new_block[y]
iwht_row(row) ==
    LET a1 == row[1] + row[4]
        b1 == row[2] + row[3]
        c1 == row[2] - row[3]
        d1 == row[1] - row[4]
    IN  <<Sar(a1 + b1 + 3, 3), Sar(c1 + d1 + 3, 3), Sar(a1 - b1 + 3, 3),
          Sar(d1 - c1 + 3, 3)>>

\* the block after the first loop of iwht4x4
iwht_columns(block) ==
    FromColumns(<< iwht_column(block, 1), iwht_column(block, 2),
                   iwht_column(block, 3), iwht_column(block, 4) >>)

\* the second loop of iwht4x4 on the block of the first
iwht_rows(block) ==
    << iwht_row(block[1]), iwht_row(block[2]), iwht_row(block[3]), iwht_row(block[4]) >>

iwht4x4(block) == iwht_rows(iwht_columns(block))

(* The caller of the transforms: a decoded block is handed over and one of
   the transforms is applied to it in place.  cblock is [cur, orig, op]: cur is
   the block, orig the block as handed over, op the transform applied. *)

ZeroBlock == << <<0, 0, 0, 0>>, <<0, 0, 0, 0>>, <<0, 0, 0, 0>>, <<0, 0, 0, 0>> >>

\* the block whose entry at row y, column x is c and whose other entries are 0
OneCoefficient(y, x, c) ==
    [i \in 1..4 |-> [j \in 1..4 |-> IF i = y /\ j = x THEN c ELSE 0]]

\* the coefficients of the blocks with one entry
Coefficients == {-2048, -9, 1, 8, 2047}

\* the decoded blocks
Blocks ==
    {ZeroBlock}
    \cup { OneCoefficient(y, x, c) : y \in 1..4, x \in 1..4, c \in Coefficients }
    \cup { << <<120, -7, 3, 0>>, <<-15, 4, 0, 0>>, <<2, 0, -1, 0>>, <<0, 0, 0, 1>> >>,
           << <<-2048, 2047, -2048, 2047>>, <<2047, -2048, 2047, -2048>>,
              <<-2048, 2047, -2048, 2047>>, <<2047, -2048, 2047, -2048>> >> }

TransformInit == Init

\* the caller hands over a decoded block
HandOver(b) ==
    /\ cblock.op = "absent"
    /\ cblock' = [cur |-> b, orig |-> b, op |-> "none"]
    /\ UNCHANGED <<ad, br, input, last, nops, panicked, walk>>

\* idct4x4(&mut block)
Idct4x4 ==
    /\ cblock.op = "none"
    /\ cblock' = [cblock EXCEPT !.cur = idct4x4(cblock.cur), !.op = "idct4x4"]
    /\ UNCHANGED <<ad, br, input, last, nops, panicked, walk>>

\* iwht4x4(&mut block)
Iwht4x4 ==
    /\ cblock.op = "none"
    /\ cblock' = [cblock EXCEPT !.cur = iwht4x4(cblock.cur), !.op = "iwht4x4"]
    /\ UNCHANGED <<ad, br, input, last, nops, panicked, walk>>

TransformNext ==
    \/ \E b \in Blocks : HandOver(b)
    \/ Idct4x4
    \/ Iwht4x4

TransformSpec == TransformInit /\ [][TransformNext]_vars

(* Properties of the transforms *)

\* a transform has been applied to the block
Transformed == cblock.op \in {"idct4x4", "iwht4x4"}

\* C15: idct4x4 and iwht4x4 each turn the all-zero block into the all-zero
\* block
C15_ZeroBlockStaysZero ==
    (Transformed /\ cblock.orig = ZeroBlock) => cblock.cur = ZeroBlock

\* iwht4x4 has been applied to the all-zero block
C15_ZeroBlockTransformed ==
    /\ Transformed
    /\ cblock.op = "iwht4x4"
    /\ cblock.orig = ZeroBlock

-----------------------------------------------------------------------------
(* Single bit reads: the interval of both decoders, bit by bit *)

\* the probabilities of the single bit reads; read_flag adds 128
BitProbs == {0, 200, 255}

\* the number of reads after an init
MaxBits == 5

\* inputs whose bits are all false, all true, or mixed, with and without
\* whole words and tail bytes
BitInputs ==
    { [buf |-> << <<0, 0, 0, 0>> >>, len |-> 1],
      [buf |-> << <<0, 0, 0, 0>>, <<0, 0, 0, 0>> >>, len |-> 8],
      [buf |-> << <<255, 255, 255, 255>>, <<255, 170, 0, 0>> >>, len |-> 6],
      [buf |-> << <<104, 101, 108, 108>> >>, len |-> 4],
      [buf |-> << <<254, 255, 255, 129>>, <<111, 0, 0, 0>> >>, len |-> 5],
      [buf |-> << <<77, 200, 0, 0>> >>, len |-> 2] }

BitInit == Init

\* one init of both decoders
BitDoInit(i) ==
    /\ ~input.ok
    /\ DoInit(i)

\* read_bool(probability) on both decoders
BitReadBool(p) ==
    /\ ~panicked
    /\ nops < MaxBits
    /\ \E a \in {AD_read_bool(ad, p)}, b \in {BR_read_bool(br, p)} :
           BothRead("read_bool", p, a, b)
    /\ nops' = nops + 1

\* read_flag() on both decoders
BitReadFlag ==
    /\ ~panicked
    /\ nops < MaxBits
    /\ \E a \in {AD_read_flag(ad)}, b \in {BR_read_flag(br)} :
           BothRead("read_flag", 0, a, b)
    /\ nops' = nops + 1

\* read_literal(8) on both decoders: a batch of eight bit reads
BitReadLiteral ==
    /\ ~panicked
    /\ nops < MaxBits
    /\ \E a \in {AD_read_literal(ad, 8)}, b \in {BR_read_literal(br, 8)} :
           BothRead("read_literal", 8, a, b)
    /\ nops' = nops + 1

BitNext ==
    \/ \E i \in BitInputs : BitDoInit(i)
    \/ \E p \in BitProbs : BitReadBool(p)
    \/ BitReadFlag
    \/ BitReadLiteral

BitSpec == BitInit /\ [][BitNext]_vars

\* the reads of one bit
BitOps == {"read_bool", "read_flag"}

\* the probability of the last read of one bit
ProbOfLast == IF last.op = "read_bool" THEN last.arg ELSE 128

\* the leading zeros of r viewed as a byte
ByteLeadingZeros(r) == Cardinality({k \in 0..7 : r < 2^k})

\* cold_read_bit on reader pre returns at its refill step: no bit is read
BR_ReadFailed(pre) ==
    /\ pre.state.bit_count < 0
    /\ ~(pre.state.chunk_index < Len(pre.chunks))
    /\ BR_is_past_eof(BR_cold_refill(pre))

\* cold_read_bit on decoder pre returns at its refill step: no bit is read
AD_ReadFailed(pre) ==
    /\ leading_zeros(pre.state.xrange) > 56
    /\ ~(pre.state.chunk_index < Len(pre.chunks))
    /\ AD_is_past_eof(AD_cold_refill(pre))

\* a bit read of BoolReader from the refilled State s1 to the State s2 with
\* result v: the range before the shift is positive, the shift is the number
\* of leading zeros of that range as a byte and brings it into 128..255
BR_RangeIsRestored(s1, s2, v, p) ==
    LET split == 1 + (((s1.range - 1) * p) \div 256)
        r == IF v THEN s1.range - split ELSE split
    IN  /\ s1.bit_count >= 0
        /\ r > 0
        /\ s1.bit_count - s2.bit_count = ByteLeadingZeros(r)
        /\ s2.range = r * 2^ByteLeadingZeros(r)
        /\ s2.range >= 128
        /\ s2.range <= 255
        /\ s2.bit_count >= -7

\* C18: in BoolReader every bit read that does not fail at EOF, on the fast
\* path (kept or dropped) and on the slow path, for every probability, has
\* bit_count >= 0 after its refill step, shifts by the leading zeros of the
\* range as a byte and ends with 128 <= range <= 255; bit_count is never
\* below -7 between the reads of an initialized reader, and no debug
\* assertion fails.
C18_RangeStaysNormalised ==
    /\ last.op \in BitOps =>
           /\ BR_RangeIsRestored(BR_fast_refill(last.br_pre.chunks, last.br_pre.state),
                                 BR_FastOfLast.s, BR_FastOfLast.v, ProbOfLast)
           /\ (~last.br_fast /\ ~BR_ReadFailed(last.br_pre)) =>
                  BR_RangeIsRestored(BR_cold_refill(last.br_pre).state, br.state,
                                     last.br_v, ProbOfLast)
    /\ last.op \in ReadOps =>
           /\ ~last.br_dbg
           /\ BR_FastOfLast.s.range \in 128..255
           /\ input.ok => br.state.bit_count >= -7
    /\ br.state.range \in 128..255

\* a slow bit read of an initialized reader that shifted the range by seven
\* bits and left bit_count at -7
C18_SlowReadShiftsBySeven ==
    /\ input.ok
    /\ last.op = "read_bool"
    /\ ~last.br_fast
    /\ ~BR_ReadFailed(last.br_pre)
    /\ BR_cold_refill(last.br_pre).state.bit_count = 0
    /\ br.state.bit_count = -7
    /\ br.state.range = 128

\* the State s1 after the refill step of a bit read of ArithmeticDecoder:
\* the leading zeros of xrange, the derived range and the product
AD_RefillLeavesRange(s1, p) ==
    LET bsr == leading_zeros(s1.xrange)
        range == AsU32(Shr64(s1.xrange, (56 - bsr) % 64))
    IN  /\ bsr >= 24
        /\ bsr <= 56
        /\ range[1] = 0
        /\ range[2] >= 128
        /\ range[2] <= 255
        /\ (range[2] - 1) * p >= 0
        /\ (range[2] - 1) * p <= 2147483647

\* C19: on an initialized ArithmeticDecoder xrange is never zero, also not
\* in a fast attempt that is dropped; after the refill step of every bit
\* read that gets past it, 24 <= leading_zeros(xrange) <= 56 and the derived
\* range is in 128..255, so no debug assertion fails and
\* (range - 1) * probability stays inside 32 bits.
C19_XrangeStaysPositive ==
    input.ok =>
        /\ ad.state.xrange # Zero64
        /\ last.op \in ReadOps =>
               /\ ~last.ad_dbg
               /\ FastOfLast.s.xrange # Zero64
        /\ last.op \in BitOps =>
               /\ AD_RefillLeavesRange(
                      AD_fast_refill(last.ad_pre.chunks, last.ad_pre.state), ProbOfLast)
               /\ (~last.ad_fast /\ ~AD_ReadFailed(last.ad_pre)) =>
                      AD_RefillLeavesRange(AD_cold_refill(last.ad_pre).state, ProbOfLast)

\* a bit read whose fast attempt took a substituted zero word and was
\* dropped, and whose slow path refilled from the tail
C19_DroppedAttemptThenTailByte ==
    /\ input.ok
    /\ last.op \in BitOps
    /\ ~last.ad_fast
    /\ ~AD_ReadFailed(last.ad_pre)
    /\ leading_zeros(last.ad_pre.state.xrange) > 56
    /\ FastOfLast.s.chunk_index > Len(ad.chunks)
    /\ leading_zeros(AD_cold_refill(last.ad_pre).state.xrange) <= 56

\* a bit read of BoolReader from the refilled State s1 to the State s2 with
\* result v, against split and bigsplit computed from range and bit_count
BR_BitIsValueAgainstSplit(s1, s2, v, p) ==
    LET split == 1 + (((s1.range - 1) * p) \div 256)
        bigsplit == Shl64(U64(split), s1.bit_count)
        shift == s1.bit_count - s2.bit_count
    IN  /\ 1 <= split
        /\ split < s1.range
        /\ v = Ge64(s1.value, bigsplit)
        /\ shift >= 0
        /\ v => /\ s2.value = Sub64(s1.value, bigsplit)
                /\ s2.range = (s1.range - split) * 2^shift
        /\ ~v => /\ s2.value = s1.value
                 /\ s2.range = split * 2^shift

\* a bit read of ArithmeticDecoder from the refilled State s1 to the State
\* s2 with result v, against split and bigsplit computed from the derived
\* range and bit_count
AD_BitIsValueAgainstSplit(s1, s2, v, p) ==
    LET bit_count == (56 - leading_zeros(s1.xrange)) % 64
        range == AsU32(Shr64(s1.xrange, bit_count))[2]
        split == 1 + (((range - 1) * p) \div 256)
        bigsplit == Shl64(U64(split), bit_count)
    IN  /\ 1 <= split
        /\ split < range
        /\ v = Ge64(s1.value, bigsplit)
        /\ v => /\ s2.value = Sub64(s1.value, bigsplit)
                /\ s2.xrange = Shl64(U64(range - split), bit_count)
        /\ ~v => /\ s2.value = s1.value
                 /\ s2.xrange = bigsplit

\* C20: a bit read with probability p computes
\* split = 1 + (((range - 1) * p) >> 8) and bigsplit = split << bit_count;
\* the bit is true iff value >= bigsplit, and then value goes down by
\* bigsplit and range by split; else value is unchanged and range = split;
\* the range is renormalised after that.  1 <= split < range.  On both
\* decoders, on the fast and on the slow path.
C20_BitIsValueAgainstSplit ==
    last.op \in BitOps =>
        /\ BR_BitIsValueAgainstSplit(
               BR_fast_refill(last.br_pre.chunks, last.br_pre.state),
               BR_FastOfLast.s, BR_FastOfLast.v, ProbOfLast)
        /\ (~last.br_fast /\ ~BR_ReadFailed(last.br_pre)) =>
               BR_BitIsValueAgainstSplit(BR_cold_refill(last.br_pre).state, br.state,
                                         last.br_v, ProbOfLast)
        /\ input.ok =>
               /\ AD_BitIsValueAgainstSplit(
                      AD_fast_refill(last.ad_pre.chunks, last.ad_pre.state),
                      FastOfLast.s, FastOfLast.v, ProbOfLast)
               /\ (~last.ad_fast /\ ~AD_ReadFailed(last.ad_pre)) =>
                      AD_BitIsValueAgainstSplit(AD_cold_refill(last.ad_pre).state,
                                                ad.state, last.ad_v, ProbOfLast)

\* a true bit under probability 255 on both decoders: the range left is
\* range - split
C20_TrueBitUnderHighProbability ==
    /\ input.ok
    /\ last.op = "read_bool"
    /\ last.arg = 255
    /\ last.ad_v = TRUE
    /\ last.br_v = TRUE
    /\ last.ad_fast
    /\ ad.state.value # last.ad_pre.state.value

-----------------------------------------------------------------------------
(* The two decoders against each other *)

\* the reads of the equivalence: bits, flags and literals
PlainOps == {"read_bool", "read_flag", "read_literal"}

\* the interval of BoolReader State s as the xrange of ArithmeticDecoder:
\* range << bit_count, and range >> -bit_count when bit_count < 0
XrangeOf(s) ==
    IF s.bit_count >= 0 THEN Shl64(U64(s.range), s.bit_count)
    ELSE Shr64(U64(s.range), 0 - s.bit_count)

\* C21: initialized with the same (buf, len) and driven by the same
\* read_bool, read_flag and read_literal calls, BoolReader and
\* ArithmeticDecoder return the same value at every step and the same check
\* outcome at every point, and once BoolReader has refilled for the first
\* time their values are equal and xrange = range << bit_count.
C21_DecodersAreEquivalent ==
    /\ last.op \in PlainOps => last.ad_v = last.br_v
    /\ AD_check(ad) = BR_check(br)
    /\ (input.ok /\ br.state.loaded # <<>>) =>
           /\ ad.state.value = br.state.value
           /\ ad.state.xrange = XrangeOf(br.state)

\* both decoders after a read_literal(8) that returned a non-zero value and
\* left BoolReader with a negative bit_count
C21_SameLiteralNegativeBitCount ==
    /\ input.ok
    /\ last.op = "read_literal"
    /\ last.ad_v > 0
    /\ last.ad_v = last.br_v
    /\ br.state.bit_count < 0
    /\ ad.state.xrange = XrangeOf(br.state)

-----------------------------------------------------------------------------
(* The input as the decoders consume it *)

\* the tail bytes a decoder still holds, the implicit zero byte included;
\* none once it is past the end
TailLeft(d) == IF d.final_bytes_remaining >= 0 THEN d.final_bytes_remaining + 1 ELSE 0

\* the bytes that the step from decoder d to decoder e shifted into value
\* from whole words
WordBytesIn(d, e) ==
    (Len(e.state.loaded) - Len(d.state.loaded)) - (TailLeft(d) - TailLeft(e))

\* decoder e follows decoder d by a public read: chunk_index does not go
\* down and grows by one for every whole word shifted into value
ChunkIndexCountsWords(d, e) ==
    /\ e.state.chunk_index >= d.state.chunk_index
    /\ WordBytesIn(d, e) = 4 * (e.state.chunk_index - d.state.chunk_index)

\* a step that is a public read of initialized decoders
ReadStep == input.ok /\ last'.op \in ReadOps

\* C22: across every public read of an initialized decoder chunk_index
\* never decreases and grows by exactly 1 per whole word consumed; the
\* increments of a rejected fast attempt are not kept: when the attempt took
\* no real word, chunk_index is the one before the call.
C22_ChunkIndexNeverDecreases ==
    [][ReadStep =>
           /\ ChunkIndexCountsWords(ad, ad')
           /\ ChunkIndexCountsWords(br, br')
           /\ (~last'.ad_fast /\ WordBytesIn(ad, ad') = 0) =>
                  ad'.state.chunk_index = ad.state.chunk_index
           /\ (~last'.br_fast /\ WordBytesIn(br, br') = 0) =>
                  br'.state.chunk_index = br.state.chunk_index]_vars

\* a read that consumed the last whole word: the ArithmeticDecoder kept its
\* fast attempt, the BoolReader rejected its own and took the word on the
\* slow path; both chunk_index grew by 1
C22_LastWordOnBothPaths ==
    /\ input.ok
    /\ last.op \in ReadOps
    /\ last.ad_fast
    /\ ~last.br_fast
    /\ ad.state.chunk_index = last.ad_pre.state.chunk_index + 1
    /\ br.state.chunk_index = last.br_pre.state.chunk_index + 1
    /\ br.state.chunk_index = Len(br.chunks)

\* the stream: the len input bytes and the one implicit zero byte
Stream == InputBytes \o <<0>>

\* the tail bytes decoder d has taken, the implicit zero byte included
TailTaken(d) == (input.len - 4 * Len(d.chunks)) + 1 - TailLeft(d)

\* what decoder d has shifted into value is the start of the stream: whole
\* words only, as many as chunk_index says, until the first tail byte, and
\* every whole word before the first tail byte
LoadedInStreamOrder(d) ==
    /\ IsPrefix(d.state.loaded, Stream)
    /\ TailTaken(d) = 0 => Len(d.state.loaded) = 4 * d.state.chunk_index
    /\ TailTaken(d) > 0 =>
           /\ Len(d.state.loaded) = 4 * Len(d.chunks) + TailTaken(d)
           /\ d.state.chunk_index >= Len(d.chunks)

\* value after a refill of 32 bits from value before it: the old low 32
\* bits moved up, the next four bytes of the stream below them, big-endian
WordShiftedIn(old, new, at) ==
    /\ new[1] = old[3]
    /\ new[2] = old[4]
    /\ new[3] = Stream[at + 1] * 256 + Stream[at + 2]
    /\ new[4] = Stream[at + 3] * 256 + Stream[at + 4]

\* the refill step of cold_read_bit on BoolReader d, when it is due: a whole
\* word while one is left, and the fast refill takes the same; else one tail
\* byte, final_bytes_remaining one lower and 8 bits more; else refused
BR_RefillInStreamOrder(d) ==
    d.state.bit_count < 0 =>
        IF d.state.chunk_index < Len(d.chunks) THEN
            /\ BR_cold_refill(d).state.chunk_index = d.state.chunk_index + 1
            /\ BR_cold_refill(d).state.bit_count = d.state.bit_count + 32
            /\ WordShiftedIn(d.state.value, BR_cold_refill(d).state.value,
                             Len(d.state.loaded))
            /\ BR_cold_refill(d).final_bytes_remaining = d.final_bytes_remaining
            /\ BR_fast_refill(d.chunks, d.state) = BR_cold_refill(d).state
        ELSE IF d.final_bytes_remaining >= 0 THEN
            /\ BR_cold_refill(d).state.chunk_index = d.state.chunk_index
            /\ BR_cold_refill(d).state.bit_count = d.state.bit_count + 8
            /\ BR_cold_refill(d).state.value =
                   OrByte(Shl64(d.state.value, 8), Stream[Len(d.state.loaded) + 1])
            /\ BR_cold_refill(d).final_bytes_remaining = d.final_bytes_remaining - 1
        ELSE
            /\ BR_cold_refill(d).state = d.state
            /\ BR_is_past_eof(BR_cold_refill(d))

\* the same for ArithmeticDecoder d, whose xrange moves up with value
AD_RefillInStreamOrder(d) ==
    leading_zeros(d.state.xrange) > 56 =>
        IF d.state.chunk_index < Len(d.chunks) THEN
            /\ AD_cold_refill(d).state.chunk_index = d.state.chunk_index + 1
            /\ AD_cold_refill(d).state.xrange = Shl64(d.state.xrange, 32)
            /\ WordShiftedIn(d.state.value, AD_cold_refill(d).state.value,
                             Len(d.state.loaded))
            /\ AD_cold_refill(d).final_bytes_remaining = d.final_bytes_remaining
            /\ AD_fast_refill(d.chunks, d.state) = AD_cold_refill(d).state
        ELSE IF d.final_bytes_remaining >= 0 THEN
            /\ AD_cold_refill(d).state.chunk_index = d.state.chunk_index
            /\ AD_cold_refill(d).state.xrange = Shl64(d.state.xrange, 8)
            /\ AD_cold_refill(d).state.value =
                   OrByte(Shl64(d.state.value, 8), Stream[Len(d.state.loaded) + 1])
            /\ AD_cold_refill(d).final_bytes_remaining = d.final_bytes_remaining - 1
        ELSE
            /\ AD_cold_refill(d).state = d.state
            /\ AD_is_past_eof(AD_cold_refill(d))

\* C23: the input enters value in stream order.  Across every public read
\* of initialized decoders what was loaded only grows, is the start of the
\* stream with every whole word before the first tail byte, and
\* final_bytes_remaining does not go up; a refill that is due takes a whole
\* word, big-endian, 32 bits, while chunk_index is short of the end of the
\* words, and otherwise one tail byte, in order, with final_bytes_remaining
\* one lower and 8 bits more.  For both decoders.
C23_BytesEnterInStreamOrder ==
    [][ReadStep =>
           /\ AD_RefillInStreamOrder(ad)
           /\ BR_RefillInStreamOrder(br)
           /\ IsPrefix(ad.state.loaded, ad'.state.loaded)
           /\ IsPrefix(br.state.loaded, br'.state.loaded)
           /\ LoadedInStreamOrder(ad')
           /\ LoadedInStreamOrder(br')
           /\ ad'.final_bytes_remaining <= ad.final_bytes_remaining
           /\ br'.final_bytes_remaining <= br.final_bytes_remaining]_vars

\* both decoders after the five bytes of an input of one whole word and one
\* tail byte, and the implicit zero byte after them
C23_WordThenTailThenZeroByte ==
    /\ input.ok
    /\ input.len = 5
    /\ last.op \in ReadOps
    /\ ad.state.loaded = <<254, 255, 255, 129, 111, 0>>
    /\ br.state.loaded = <<254, 255, 255, 129, 111, 0>>
    /\ ad.final_bytes_remaining = -1
    /\ br.final_bytes_remaining = -1

-----------------------------------------------------------------------------
(* init on decoders that were used before *)

\* the (buf, len) pairs of the caller, and two more whose last word has
\* non-zero bytes behind the declared length
ReinitInputs ==
    Inputs \cup
    { [buf |-> << <<77, 200, 3, 0>> >>, len |-> 1],
      [buf |-> << <<104, 101, 108, 108>>, <<0, 5, 0, 0>> >>, len |-> 4] }

\* a caller that decodes partition after partition with the same decoders:
\* init at any point, flags and bytes in between, check at any point
ReinitNext ==
    \/ \E i \in ReinitInputs : DoInit(i)
    \/ ReadFlag
    \/ ReadLiteral(8)
    \/ Check

ReinitSpec == Init /\ [][ReinitNext]_vars

\* C24: a successful init(buf, len) leaves exactly the decoder that the same
\* init leaves on a new decoder, whether the decoder was fresh, mid-stream
\* or past EOF: nothing of the previous partition is left, the decoder is
\* not past EOF, and check returns Ok, also for an empty buffer with len = 0.
C24_InitReplacesTheDecoder ==
    (last.op = "init" /\ last.ad_res = "Ok" /\ last.br_res = "Ok") =>
        /\ ad = AD_init(AD_new, AD_initialized(last.buf, last.len))
        /\ br = BR_init_assigned(BR_new, BR_init(last.buf, last.len))
        /\ ad.state.loaded = (IF ad.chunks # <<>> THEN ad.chunks[1]
                              ELSE <<Stream[1]>>)
        /\ br.state.loaded = <<>>
        /\ br.state.chunk_index = 0
        /\ ~AD_is_past_eof(ad)
        /\ ~BR_is_past_eof(br)
        /\ AD_check(ad) = "Ok"
        /\ BR_check(br) = "Ok"

\* an init with an empty buffer and len = 0 on decoders that had read past
\* the end of their previous partition
C24_EmptyInitAfterEof ==
    /\ last.op = "init"
    /\ last.was = "eof"
    /\ last.ad_res = "Ok"
    /\ last.br_res = "Ok"
    /\ last.buf = <<>>
    /\ last.len = 0
    /\ AD_check(ad) = "Ok"
    /\ BR_check(br) = "Ok"

\* buf with every byte at a position >= len set to zero
ZeroPadded(buf, len) ==
    [k \in 1..Len(buf) |->
        [j \in 1..4 |-> IF 4 * (k - 1) + j > len THEN 0 ELSE buf[k][j]]]

\* the last init had a non-zero byte behind the declared length in the
\* partial last word it popped
PaddingOfLastInit ==
    /\ last.op = "init"
    /\ last.buf # <<>>
    /\ 4 * (Len(last.buf) - 1) <= last.len
    /\ last.len < 4 * Len(last.buf)
    /\ last.buf # ZeroPadded(last.buf, last.len)

\* C25: the bytes of the popped last word at positions >= len mod 4 never
\* reach the decoder: init gives the same result and the same decoder as
\* for the input with these bytes zero, so every later read and check is the
\* same too, and what is loaded into value is the len input bytes and the
\* implicit zero byte only; a non-zero padding byte fails a debug assertion
\* and init still returns Ok.  For both decoders.
C25_PaddingIsNeverLoaded ==
    /\ last.op = "init" =>
           /\ AD_initialized(last.buf, last.len).res =
                  AD_initialized(ZeroPadded(last.buf, last.len), last.len).res
           /\ AD_initialized(last.buf, last.len).d =
                  AD_initialized(ZeroPadded(last.buf, last.len), last.len).d
           /\ BR_init(last.buf, last.len).res =
                  BR_init(ZeroPadded(last.buf, last.len), last.len).res
           /\ BR_init(last.buf, last.len).d =
                  BR_init(ZeroPadded(last.buf, last.len), last.len).d
    /\ PaddingOfLastInit =>
           /\ last.ad_res = "Ok"
           /\ last.br_res = "Ok"
           /\ last.ad_dbg
           /\ last.br_dbg
           /\ ad = AD_initialized(ZeroPadded(last.buf, last.len), last.len).d
           /\ br = BR_init(ZeroPadded(last.buf, last.len), last.len).d
    /\ input.ok =>
           /\ IsPrefix(ad.state.loaded, Stream)
           /\ IsPrefix(br.state.loaded, Stream)

\* decoders that were initialized with one byte and non-zero padding behind
\* it, and have read that byte, the implicit zero byte, and past the end
C25_ReadPastNonZeroPadding ==
    /\ input.ok
    /\ input.buf = << <<77, 200, 3, 0>> >>
    /\ input.len = 1
    /\ ad.state.loaded = <<77, 0>>
    /\ br.state.loaded = <<77, 0>>
    /\ AD_is_past_eof(ad)
    /\ BR_is_past_eof(br)

-----------------------------------------------------------------------------
(* The shape of xrange, and read_flag against read_bit(128) *)

\* all bits of x below the 8 positions that start at its most significant
\* set bit are zero
LowBitsZero(x) ==
    leading_zeros(x) <= 56 =>
        x = Shl64(Shr64(x, 56 - leading_zeros(x)), 56 - leading_zeros(x))

\* the bit and the State of two bit reads are the same
SameBit(a, b) == a.v = b.v /\ a.s = b.s

\* C26: in every state of an initialized ArithmeticDecoder the bits of
\* xrange below its 8 most significant set-bit positions are zero, and a
\* flag read from it gives the same bit and the same State (chunk_index,
\* value, xrange) whether it is fast_read_flag or fast_read_bit(128), and,
\* from the State that the slow refill leaves, whether it is decided as a
\* flag or by cold_read_bit(128).
C26_FlagIsBitOfProbability128 ==
    input.ok =>
        /\ LowBitsZero(ad.state.xrange)
        /\ SameBit(AD_fast_read_flag(ad.chunks, ad.state),
                   AD_fast_read_bit(ad.chunks, ad.state, 128))
        /\ ~AD_ReadFailed(ad) =>
               /\ LowBitsZero(AD_cold_refill(ad).state.xrange)
               /\ SameBit(AD_read_flag_refilled(AD_cold_refill(ad).state),
                          AD_read_bit_refilled(AD_cold_refill(ad).state, 128))
               /\ AD_cold_read_bit(ad, 128).d.state =
                      AD_read_flag_refilled(AD_cold_refill(ad).state).s
               /\ AD_return_if_valid(ad.chunks,
                                     AD_fast_read_flag(ad.chunks, ad.state).s) =>
                      /\ AD_cold_read_bit(ad, 128).d.state =
                             AD_fast_read_flag(ad.chunks, ad.state).s
                      /\ AD_cold_read_bit(ad, 128).v =
                             AD_fast_read_flag(ad.chunks, ad.state).v

\* a set flag read on the fast path from an interval whose range is odd
C26_SetFlagFromOddRange ==
    /\ input.ok
    /\ last.op = "read_flag"
    /\ last.ad_fast
    /\ last.ad_v = TRUE
    /\ leading_zeros(last.ad_pre.state.xrange) <= 56
    /\ AsU32(Shr64(last.ad_pre.state.xrange,
                   56 - leading_zeros(last.ad_pre.state.xrange)))[2] % 2 = 1

-----------------------------------------------------------------------------
(* value against xrange *)

\* the input of the last successful init does not start with the byte 0xFF
FirstByteNotFF == input.len = 0 \/ input.buf[1][1] # 255

\* value < xrange in State s
ValueBelowXrange(s) == ~Ge64(s.value, s.xrange)

\* the refill that is due on decoder d finds value < 128 and shifts no set
\* bit out of it: the refilled value shifted back is the value before, for
\* the 32 bits of the fast and of the slow refill and for the 8 bits of a
\* tail byte or of the implicit zero byte
RefillKeepsValue(d) ==
    leading_zeros(d.state.xrange) > 56 =>
        /\ ~Ge64(d.state.value, U64(128))
        /\ Shr64(AD_fast_refill(d.chunks, d.state).value, 32) = d.state.value
        /\ ValueBelowXrange(AD_fast_refill(d.chunks, d.state))
        /\ ~AD_ReadFailed(d) =>
               /\ ValueBelowXrange(AD_cold_refill(d).state)
               /\ Shr64(AD_cold_refill(d).state.value,
                        IF d.state.chunk_index < Len(d.chunks) THEN 32 ELSE 8)
                      = d.state.value

\* C27: in an ArithmeticDecoder initialized from an input whose first byte
\* is not 0xFF, value < xrange after init and after every read, also at the
\* end of every fast attempt and after every refill of 32 bits, of a tail
\* byte and of the implicit zero byte; so value < 128 whenever a refill is
\* due and the refill shifts no set bit out of value.
C27_ValueStaysBelowXrange ==
    (input.ok /\ FirstByteNotFF) =>
        /\ ValueBelowXrange(ad.state)
        /\ RefillKeepsValue(ad)
        /\ last.op \in ReadOps => ValueBelowXrange(FastOfLast.s)

\* a decoder with a non-zero value that is due for the refill of the
\* implicit zero byte
C27_RefillDueWithValue ==
    /\ input.ok
    /\ FirstByteNotFF
    /\ last.op \in BitOps
    /\ leading_zeros(ad.state.xrange) > 56
    /\ ad.state.value # Zero64
    /\ ad.state.chunk_index >= Len(ad.chunks)
    /\ ad.final_bytes_remaining = 0

-----------------------------------------------------------------------------
(* Reads that fail at the end of the input *)

\* the value a read returns when its BitResult is an error: false, or 0
DefaultOfLast == IF last.op \in BitOps THEN last.ad_v = FALSE ELSE last.ad_v = 0

BR_DefaultOfLast == IF last.op \in BitOps THEN last.br_v = FALSE ELSE last.br_v = 0

\* the last read asked for at least one bit: all but read_literal(0)
ReadsABit == ~(last.op = "read_literal" /\ last.arg = 0)

\* C28: a bit read whose refill is refused at EOF returns false and leaves
\* the State (chunk_index, value, xrange / range, bit_count) as it was
\* before the call: the decoder differs in final_bytes_remaining only, which
\* is the sentinel.  A public read on a decoder that is past EOF leaves the
\* whole decoder as it was, its fast attempt rejected when the read asks for
\* a bit at all.  For both decoders.
C28_FailedReadKeepsState ==
    /\ (last.op \in BitOps /\ AD_ReadFailed(last.ad_pre)) =>
           /\ ~last.ad_fast
           /\ last.ad_v = FALSE
           /\ ad.state = last.ad_pre.state
           /\ ad = [last.ad_pre EXCEPT
                        !.final_bytes_remaining = FINAL_BYTES_REMAINING_EOF]
    /\ (last.op \in BitOps /\ BR_ReadFailed(last.br_pre)) =>
           /\ ~last.br_fast
           /\ last.br_v = FALSE
           /\ br.state = last.br_pre.state
           /\ br = [last.br_pre EXCEPT
                        !.final_bytes_remaining = FINAL_BYTES_REMAINING_EOF]
    /\ (last.op \in ReadOps /\ AD_is_past_eof(last.ad_pre)) =>
           /\ ReadsABit => ~last.ad_fast
           /\ last.op \in PlainOps => DefaultOfLast
           /\ ad = last.ad_pre
    /\ (last.op \in ReadOps /\ BR_is_past_eof(last.br_pre)) =>
           /\ ReadsABit => ~last.br_fast
           /\ last.op \in PlainOps => BR_DefaultOfLast
           /\ br = last.br_pre

\* the read_bool of initialized decoders that finds the input used up: both
\* decoders are past EOF after it and were not before
C28_FirstReadBeyondTheEnd ==
    /\ input.ok
    /\ last.op = "read_bool"
    /\ AD_ReadFailed(last.ad_pre)
    /\ BR_ReadFailed(last.br_pre)
    /\ ~AD_is_past_eof(last.ad_pre)
    /\ ~BR_is_past_eof(last.br_pre)
    /\ AD_is_past_eof(ad)
    /\ BR_is_past_eof(br)
    /\ ad.state.value # Zero64

-----------------------------------------------------------------------------
(* init that fails *)

\* the last operation was an init that returned Err(NotEnoughInitData) from
\* both decoders
InitFailed ==
    /\ last.op = "init"
    /\ last.ad_res = "NotEnoughInitData"
    /\ last.br_res = "NotEnoughInitData"

\* C29: an init that returns Err(NotEnoughInitData) changes no field of
\* either decoder.  Decoders that were never initialized stay past EOF and
\* fail check; decoders that were mid-stream are not past EOF and go on with
\* the partition of their last successful init: what they have loaded, and
\* what they load in the reads after the failed init, is the start of that
\* partition's stream.
C29_FailedInitChangesNothing ==
    /\ InitFailed =>
           /\ ad = last.ad_pre
           /\ br = last.br_pre
           /\ last.was = "fresh" =>
                  /\ ad = AD_new
                  /\ br = BR_new
                  /\ AD_is_past_eof(ad)
                  /\ BR_is_past_eof(br)
                  /\ AD_check(ad) = "BitStreamError"
                  /\ BR_check(br) = "BitStreamError"
           /\ last.was = "mid" =>
                  /\ ~AD_is_past_eof(ad)
                  /\ AD_check(ad) = "Ok"
    /\ input.ok =>
           /\ LoadedInStreamOrder(ad)
           /\ LoadedInStreamOrder(br)
           /\ ad.chunks = [k \in 1..(input.len \div 4) |-> input.buf[k]]
           /\ br.chunks = ad.chunks

\* a failed init on decoders in the middle of a partition, with bytes loaded
\* and more to come
C29_FailedInitMidStream ==
    /\ InitFailed
    /\ last.was = "mid"
    /\ input.ok
    /\ input.len = 8
    /\ ad.state.chunk_index = 1
    /\ br.state.chunk_index = 1
    /\ ad = last.ad_pre
    /\ br = last.br_pre

-----------------------------------------------------------------------------
(* The first node of a tree walk on the fast path and on the fallback *)

\* the walk of the last read_with_tree_with_first_node(tree, first_node)
\* against the fast walk f from the node value and the slow walk c from the
\* node's index, both from the decoder before the call
SameWalk(pre, f, c) ==
    /\ last.ad_fast = AD_return_if_valid(pre.chunks, f.s)
    /\ last.ad_fast =>
           /\ last.ad_v = f.v
           /\ ad.state = f.s
    /\ last.ad_v = c.v
    /\ ad = c.d

\* C30: read_with_tree_with_first_node(tree, first_node) with
\* tree[first_node.index] = first_node returns the leaf of the slow walk from
\* index first_node.index and leaves that walk's decoder, whether the fast
\* walk from the node value was kept or not, so both paths start at the same
\* node; read_with_tree(tree) passes tree[0], whose index is 0, and is the
\* walk from node 0.  The BoolReader, which walks from the index on both
\* paths, returns the same leaf.
C30_BothPathsStartAtFirstNode ==
    /\ \A k \in 1..Len(TREE) : TREE[k].index = k - 1
    /\ last.op = "read_with_tree" =>
           /\ TREE[TREE[last.arg + 1].index + 1] = TREE[last.arg + 1]
           /\ SameWalk(last.ad_pre,
                       AD_fast_read_with_tree(last.ad_pre.chunks, last.ad_pre.state,
                                              TREE, TREE[last.arg + 1]),
                       AD_cold_read_with_tree(last.ad_pre, TREE, last.arg))
           /\ last.arg = 0 =>
                  /\ AD_read_with_tree(last.ad_pre, TREE).v = last.ad_v
                  /\ AD_read_with_tree(last.ad_pre, TREE).d = ad
           /\ last.br_v = last.ad_v

\* a walk from the second node whose fast attempt was rejected, on input
\* that lasts: the fallback returned the leaf 1 of the second node's right
\* branch after one bit
C30_RejectedWalkFromSecondNode ==
    /\ input.ok
    /\ last.op = "read_with_tree"
    /\ last.arg = 1
    /\ ~last.ad_fast
    /\ ~AD_is_past_eof(ad)
    /\ last.ad_v = 1
    /\ last.br_v = 1

-----------------------------------------------------------------------------
(* Blocks that have a DC coefficient only *)

\* the DC coefficients around zero: -MaxDc .. MaxDc
MaxDc == 20

\* the DC coefficients of the blocks: every remainder by 8 on both sides of
\* zero, and large coefficients of both signs
DcCoefficients == (0 - MaxDc)..MaxDc \cup {-663796, -2048, -2047, 2047, 2048, 663796}

\* the caller hands over a block whose only entry is block[0][0] = d
HandOverDc(d) == HandOver(OneCoefficient(1, 1, d))

DcNext ==
    \/ \E d \in DcCoefficients : HandOverDc(d)
    \/ Idct4x4
    \/ Iwht4x4

DcSpec == TransformInit /\ [][DcNext]_vars

\* the block with every entry c
ConstantBlock(c) == [i \in 1..4 |-> [j \in 1..4 |-> c]]

\* q is n / 8 rounded towards minus infinity
IsFloorOfEighth(q, n) == 8 * q <= n /\ n < 8 * q + 8

\* C31: for a block whose only non-zero entry is the DC coefficient
\* block[0][0] = d, idct4x4 leaves the constant block of (d + 4) >> 3 and
\* iwht4x4 the constant block of (d + 3) >> 3, the shift being the division
\* by 8 rounded towards minus infinity, for negative d too.
C31_DcOnlyBlockIsConstant ==
    \A d \in DcCoefficients :
        (Transformed /\ cblock.orig = OneCoefficient(1, 1, d)) =>
            /\ cblock.cur = ConstantBlock(cblock.cur[1][1])
            /\ cblock.op = "idct4x4" =>
                   /\ IsFloorOfEighth(cblock.cur[1][1], d + 4)
                   /\ cblock.cur = ConstantBlock(Sar(d + 4, 3))
            /\ cblock.op = "iwht4x4" =>
                   /\ IsFloorOfEighth(cblock.cur[1][1], d + 3)
                   /\ cblock.cur = ConstantBlock(Sar(d + 3, 3))

\* iwht4x4 on the block of the DC coefficient -4: every entry is -1, where
\* a division that rounds towards zero gives 0
C31_NegativeDcRoundsDown ==
    /\ cblock.op = "iwht4x4"
    /\ cblock.orig = OneCoefficient(1, 1, -4)
    /\ cblock.cur = ConstantBlock(-1)

-----------------------------------------------------------------------------
(* foo and bar, src/src/lib.rs: the split of an interval, computed with
   shifts and computed with masks.  A result is [v, dbg]: dbg says that a
   debug assertion of the function fails. *)

\* x + y on u64, wrapping
Add64(x, y) ==
    LET s4 == x[4] + y[4]
        s3 == x[3] + y[3] + (s4 \div 65536)
        s2 == x[2] + y[2] + (s3 \div 65536)
        s1 == x[1] + y[1] + (s2 \div 65536)
    IN  <<s1 % 65536, s2 % 65536, s3 % 65536, s4 % 65536>>

\* x * u64::from(probability) on u64, wrapping
MulByte64(x, probability) ==
    LET m4 == x[4] * probability
        m3 == x[3] * probability + (m4 \div 65536)
        m2 == x[2] * probability + (m3 \div 65536)
        m1 == x[1] * probability + (m2 \div 65536)
    IN  <<m1 % 65536, m2 % 65536, m3 % 65536, m4 % 65536>>

\* x & 0x000000FF00000000
AndRangeMask(x) == <<0, x[2] % 256, 0, 0>>

\* x & 0x0000FF0000000000
AndSplitMask(x) == <<0, x[2] - (x[2] % 256), 0, 0>>

\* foo(xrange, probability); bit_count is an i32, the shifts take it modulo 64
foo(xrange, probability) ==
    LET bsr == leading_zeros(xrange) - 32
        bit_count == 24 - bsr
        range == Shr64(xrange, bit_count)
        split == Add64(U64(1), Shr64(MulByte64(Sub64(range, U64(1)), probability), 8))
    IN  [v |-> Shl64(split, bit_count), dbg |-> ~Ge64(U64(255), range)]

\* a variant of bar_split: the low byte of the product is not masked away
bar_split_unmasked(r, probability) ==
    Add64(MulByte64(Sub64(AndRangeMask(r), <<0, 1, 0, 0>>), probability),
          <<0, 256, 0, 0>>)

\* r of bar after r += 0x0000010000000000, from r = xrange << s
bar_split(r, probability) ==
    Add64(AndSplitMask(MulByte64(Sub64(AndRangeMask(r), <<0, 1, 0, 0>>), probability)),
          <<0, 256, 0, 0>>)

\* bar(xrange, probability) once r = xrange << s is known; s is a u32, of
\* which the shifts take the low six bits
bar_shifted(xrange, probability, s, r) ==
    [v |-> Shr64(bar_split(r, probability), s + 8),
     dbg |-> \/ leading_zeros(xrange) > 56
             \/ leading_zeros(xrange) < 24
             \/ leading_zeros(r) # 24]

\* bar(xrange, probability)
bar(xrange, probability) ==
    bar_shifted(xrange, probability, (leading_zeros(xrange) - 24) % 64,
                Shl64(xrange, (leading_zeros(xrange) - 24) % 64))

(* The caller of foo and bar: as test_foo_bar does, it computes a = foo(xrange,
   prob) and then b = bar(xrange, prob) for an xrange and a probability of
   its choice.  last is [op, xrange, probability, a, b]. *)

\* the number of leading zeros of the xranges that are paired with every
\* range and probability
MidLeadingZeros == 40

\* the xrange with lz leading zeros whose top eight bits are range and whose
\* bits below them are all zero or all one
XrangeWith(lz, range, ones) ==
    Add64(Shl64(U64(range), 56 - lz),
          IF ones THEN Sub64(Shl64(U64(1), 56 - lz), U64(1)) ELSE Zero64)

\* the arguments of the calls: every range with every probability at one
\* number of leading zeros, and some ranges and probabilities at every number
\* of leading zeros from 24 to 56
FooBarArgs ==
    { [xrange |-> XrangeWith(MidLeadingZeros, range, TRUE), probability |-> p] :
          range \in 128..255, p \in 0..255 }
    \cup { [xrange |-> XrangeWith(lz, range, ones), probability |-> p] :
               lz \in 24..56, range \in {128, 129, 213, 255},
               ones \in BOOLEAN, p \in {0, 1, 77, 128, 255} }

FooBarInit ==
    /\ ad = AD_new
    /\ br = BR_new
    /\ input = [buf |-> <<>>, len |-> 0, ok |-> FALSE]
    /\ \E args \in FooBarArgs :
           last = [op |-> "args", xrange |-> args.xrange,
                   probability |-> args.probability,
                   a |-> [v |-> Zero64, dbg |-> FALSE],
                   b |-> [v |-> Zero64, dbg |-> FALSE]]
    /\ nops = 0
    /\ panicked = FALSE
    /\ walk = NoWalk
    /\ cblock = NoBlock

\* let a = foo(xrange, prob)
CallFoo ==
    /\ last.op = "args"
    /\ last' = [last EXCEPT !.op = "foo", !.a = foo(last.xrange, last.probability)]
    /\ UNCHANGED <<ad, br, input, nops, panicked, walk, cblock>>

\* let b = bar(xrange, prob)
CallBar ==
    /\ last.op = "foo"
    /\ last' = [last EXCEPT !.op = "bar", !.b = bar(last.xrange, last.probability)]
    /\ UNCHANGED <<ad, br, input, nops, panicked, walk, cblock>>

FooBarNext ==
    \/ CallFoo
    \/ CallBar

FooBarSpec == FooBarInit /\ [][FooBarNext]_vars

\* (1 + (((range - 1) * probability) >> 8)) << bit_count for the eight bit
\* range and the bit_count of an xrange, by plain arithmetic on the range
SplitOfRange(range, probability, bit_count) ==
    Shl64(U64(1 + (((range - 1) * probability) \div 256)), bit_count)

\* the results of foo and bar against the split of xrange's top eight bits
SameSplit(xrange, probability, bit_count) ==
    /\ 24 <= leading_zeros(xrange)
    /\ leading_zeros(xrange) <= 56
    /\ last.a.v = last.b.v
    /\ last.a.v = SplitOfRange(Shr64(xrange, bit_count)[4], probability, bit_count)
    /\ Shr64(xrange, bit_count)[4] \in 128..255
    /\ Shr64(xrange, bit_count) = U64(Shr64(xrange, bit_count)[4])
    /\ ~last.a.dbg
    /\ ~last.b.dbg

\* C32: for every xrange with 24 <= leading_zeros(xrange) <= 56 and every
\* probability, bar(xrange, p), computed with masks and one multiplication,
\* equals foo(xrange, p) = (1 + (((range - 1) * p) >> 8)) << bit_count with
\* bit_count = 56 - leading_zeros(xrange) and range = xrange >> bit_count,
\* and no debug assertion of either fails.
C32_BarEqualsFoo ==
    (last.op = "foo" => last.a.v = AD_bigsplit(last.xrange, last.probability))
    /\ (last.op = "bar" =>
            SameSplit(last.xrange, last.probability, 56 - leading_zeros(last.xrange)))

\* both computed for an xrange with 24 leading zeros, its low bits all set,
\* and a probability whose product with range - 1 has a low byte that the
\* mask of bar removes
C32_SplitWithMaskedLowByte ==
    /\ last.op = "bar"
    /\ leading_zeros(last.xrange) = 24
    /\ last.xrange[4] = 65535
    /\ last.probability = 77
    /\ last.a.v = last.b.v
    /\ last.a.v # Zero64

====
